---- MODULE Spec2Model ----
(***************************************************************************)
(* Provider adapter abstraction and orchestration layer of peerlogic-voip: *)
(* VoIPService (services/voip_service.py), NetSapiensAdapter               *)
(* (adapters/netsapiens/client.py), MockAdapter (adapters/mock/client.py), *)
(* AdapterRegistry (adapters/registry.py) and BaseVoIPAdapter              *)
(* (adapters/base.py).                                                     *)
(*                                                                         *)
(* Python values are encoded with one TLA+ type per field: a str is a      *)
(* string (None is NoneStr), a formatted message is a tuple of its parts,  *)
(* an optional instant is an integer (None is NoneInt).                    *)
(***************************************************************************)
EXTENDS Integers, Sequences, FiniteSets, TLC

VARIABLES
    now,        \* datetime.now(), in seconds
    db_conn,    \* the ProviderConnection row of connection_id
    db_cred,    \* the ProviderCredential row of the connection
    svc,        \* the VoIPService instance: _connection, _adapter, _connected
    adapter,    \* the adapter object the service (or the test harness) holds
    clients,    \* every httpx.AsyncClient opened so far: its number of aclose() calls
    audit,      \* the AuditLog table: its number of rows (it is never read back)
    last,       \* outcome of the call that has just returned to the caller
    hist,       \* history of the calls made so far (read by no operation)
    tasks,      \* coroutines running _make_request on the adapter
    ids         \* the IDMapping table, and the number of uuid4() values drawn

vars == <<now, db_conn, db_cred, svc, adapter, clients, audit, last, hist, tasks, ids>>

----------------------------------------------------------------------------
\* Bounds of the model

MaxTime == 1
MaxClients == 2
MaxAudit == 1
MaxCreated == 1
MaxIds == 3

----------------------------------------------------------------------------
\* Encoding of Python values

NoneStr == "None"
NoneInt == 0 - 1

\* Python truthiness of an Optional[str]
Truthy(s) == s # NoneStr /\ s # ""

\* str.lower() on the provider-type strings that occur
Lower(s) ==
    CASE s = "NetSapiens" -> "netsapiens"
      [] s = "Mock" -> "mock"
      [] OTHER -> s

\* str(int) for the HTTP status codes that occur
StatusStr(n) ==
    CASE n = 200 -> "200"
      [] n = 204 -> "204"
      [] n = 401 -> "401"
      [] n = 404 -> "404"
      [] n = 500 -> "500"
      [] OTHER -> "?"

----------------------------------------------------------------------------
\* AdapterResult (adapters/base.py)

NoMsg == <<>>

\* a text cut by text[:n] is the prefix of that text holding len characters
NoPreview == [text |-> NoneStr, len |-> 0]

\* error_details: Dict = field(default_factory=dict), with the keys the
\* adapters fill in
NoDetails == [response |-> NoneStr, response_preview |-> NoPreview]

\* A call that returned an AdapterResult built by AdapterResult.ok
Ok(d) == [success |-> TRUE, data |-> d, code |-> NoneStr, message |-> NoMsg,
          raised |-> NoneStr, details |-> NoDetails]

\* A call that returned an AdapterResult built by AdapterResult.fail
Fail(c, m) == [success |-> FALSE, data |-> NoneStr, code |-> c, message |-> m,
               raised |-> NoneStr, details |-> NoDetails]

\* AdapterResult.fail(code, message, details=d)
FailWith(c, m, d) == [Fail(c, m) EXCEPT !.details = d]

\* A call that returned nothing because an exception propagated out of it
Raise(e) == [success |-> FALSE, data |-> NoneStr, code |-> NoneStr,
             message |-> NoMsg, raised |-> e, details |-> NoDetails]

Returned(r) == r.raised = NoneStr

----------------------------------------------------------------------------
\* Vendor responses (inputs of the model)

\* Response bodies, by the way the code tells them apart: empty text,
\* whitespace-only text, text that is not JSON, a JSON object the code's
\* field mapping accepts, a JSON object holding null or invalid values in
\* mapped fields, and JSON that is not an object (array, scalar, null).
\* BodyLongNotJson stands for a text that is not JSON and is one character
\* longer than the previews the code cuts.
BodyEmpty == ""
BodyBlank == "  "
BodyNotJson == "<html>"
BodyLongNotJson == "<html>...</html>"
BodyObject == "{record}"
BodyBadObject == "{\"user\": null}"
BodyNonObject == "[]"

\* JSON objects holding a list of records under the key a list operation
\* reads: two records and no "total", six records and a "total" of 9
BodyList == "{\"records\": [2 records]}"
BodyListTotal == "{\"records\": [6 records], \"total\": 9}"

ListBodies == {BodyList, BodyListTotal}

Bodies == {BodyEmpty, BodyBlank, BodyNotJson, BodyLongNotJson, BodyObject,
           BodyBadObject, BodyNonObject}

\* the 500 of response.text[:500]
PreviewLimit == 500

\* len(response.text)
TextLen(body) ==
    CASE body = BodyEmpty -> 0
      [] body = BodyBlank -> 2
      [] body = BodyNotJson -> 6
      [] body = BodyLongNotJson -> PreviewLimit + 1
      [] body = BodyObject -> 8
      [] body = BodyBadObject -> 14
      [] body = BodyNonObject -> 2
      [] body = BodyList -> 24
      [] body = BodyListTotal -> 36

\* a preview that holds the whole text
Uncut(body, n) == [text |-> body, len |-> TextLen(body)]

\* response.text[:n]
Cut(body, n) == [text |-> body, len |-> IF TextLen(body) < n THEN TextLen(body) ELSE n]

\* response.text: "not text or not text.strip()"
IsBlank(body) == body = BodyEmpty \/ body = BodyBlank

\* response.json() raises ValueError on text that is not JSON
IsJson(body) == body \in {BodyObject, BodyBadObject, BodyNonObject} \cup ListBodies

\* the parsed value is a dict, so .get() is defined on it
IsDict(body) == body \in {BodyObject, BodyBadObject} \cup ListBodies

Tokens == {"tokA", "tokB"}

TokenResponse(type, status, body, tok, expires_in, expires_bad, domain) ==
    [type |-> type, status |-> status, body |-> body, access_token |-> tok,
     expires_in |-> expires_in, expires_bad |-> expires_bad, domain |-> domain]

\* Outcomes of the POST to oauth2/token/: a transport timeout, another
\* transport exception, a non-200 answer, a 200 answer whose body is not a
\* JSON object, and a 200 answer with a JSON object, with or without
\* access_token, expires_in (absent, 0, a number, a non-number) and domain.
TokenResponses ==
    {TokenResponse("timeout", 0, BodyEmpty, NoneStr, NoneInt, FALSE, NoneStr),
     TokenResponse("error", 0, BodyEmpty, NoneStr, NoneInt, FALSE, NoneStr)}
    \cup {TokenResponse("http", 401, b, NoneStr, NoneInt, FALSE, NoneStr) :
            b \in {BodyEmpty, BodyNotJson, BodyObject}}
    \cup {TokenResponse("http", 200, b, NoneStr, NoneInt, FALSE, NoneStr) :
            b \in {BodyEmpty, BodyBlank, BodyNotJson, BodyNonObject}}
    \cup {TokenResponse("http", 200, BodyObject, tok, e, FALSE, d) :
            tok \in Tokens \cup {NoneStr}, e \in {NoneInt, 0, 1, 2},
            d \in {NoneStr, "Peerlogic"}}
    \cup {TokenResponse("http", 200, BodyObject, tok, NoneInt, TRUE, NoneStr) :
            tok \in Tokens}

ApiResponse(type, status, body) == [type |-> type, status |-> status, body |-> body]

\* Outcomes of the API request: timeout, other transport exception, or an
\* HTTP answer with a status and a body.
ApiResponses ==
    {ApiResponse("timeout", 0, BodyEmpty), ApiResponse("error", 0, BodyEmpty)}
    \cup {ApiResponse("http", st, b) : st \in {200, 204, 401, 404, 500}, b \in Bodies}
    \cup {ApiResponse("http", 200, b) : b \in ListBodies}

----------------------------------------------------------------------------
\* AdapterConfig.credentials: the decrypted credential map

Credentials(grant, id, secret, user, pw) ==
    [grant_type |-> grant, client_id |-> id, client_secret |-> secret,
     username |-> user, password |-> pw]

\* every combination of present, empty and absent fields
CredentialMaps ==
    {Credentials(g, i, s, u, p) :
        g \in {NoneStr, "client_credentials", "password", "implicit"},
        i \in {NoneStr, "cid"}, s \in {"", "sec"},
        u \in {NoneStr, "usr"}, p \in {NoneStr, "pwd"}}

\* dict.get(key, "") as used by NetSapiensAdapter.__init__
GetOrEmpty(v) == IF v = NoneStr THEN "" ELSE v

----------------------------------------------------------------------------
\* Adapter objects

NoUsers == <<>>

\* AdapterConfig.max_retries: int = 3; no method reads it
DefaultMaxRetries == 3

\* self._adapter = None
NoAdapter ==
    [kind |-> "none", provider_name |-> NoneStr, client |-> 0,
     creds |-> Credentials(NoneStr, NoneStr, "", NoneStr, NoneStr),
     client_id |-> "", client_secret |-> "", domain |-> "",
     access_token |-> NoneStr, token_expires |-> NoneInt,
     users |-> NoUsers, next_user_id |-> 0,
     devices |-> NoUsers, next_device_id |-> 0,
     max_retries |-> DefaultMaxRetries]

\* NetSapiensAdapter.__init__
NetSapiensAdapter(creds, domain) ==
    [kind |-> "netsapiens", provider_name |-> "NetSapiens", client |-> 0,
     creds |-> creds,
     client_id |-> GetOrEmpty(creds.client_id),
     client_secret |-> GetOrEmpty(creds.client_secret),
     domain |-> domain,
     access_token |-> NoneStr, token_expires |-> NoneInt,
     users |-> NoUsers, next_user_id |-> 0,
     devices |-> NoUsers, next_device_id |-> 0,
     max_retries |-> DefaultMaxRetries]

----------------------------------------------------------------------------
\* NetSapiensAdapter._authenticate

\* the two messages of the grant validation, cut at the field names
MsgMissingCC == <<"Missing required credentials: ", "client_id", ", ", "client_secret">>
MsgMissingPW ==
    <<"Missing required credentials: ", "client_id", ", ", "client_secret", ", ",
      "username", ", ", "password">>

\* The grant-type validation that precedes the token request: the failed
\* result it returns, or Ok when the request is to be sent.
AuthValidate(a) ==
    LET grant == IF a.creds.grant_type = NoneStr THEN "client_credentials"
                 ELSE a.creds.grant_type
    IN  CASE grant = "client_credentials" ->
                IF ~(Truthy(a.client_id) /\ Truthy(a.client_secret))
                THEN Fail("AUTH_ERROR", MsgMissingCC)
                ELSE Ok("send")
          [] grant = "password" ->
                IF ~(Truthy(a.client_id) /\ Truthy(a.client_secret)
                     /\ Truthy(a.creds.username) /\ Truthy(a.creds.password))
                THEN Fail("AUTH_ERROR", MsgMissingPW)
                ELSE Ok("send")
          [] OTHER ->
                Fail("AUTH_ERROR", <<"Unsupported grant_type: ", grant,
                                     ". Supported: client_credentials, password">>)

\* error_msg of a non-200 token answer
AuthErrorMsg(resp) ==
    CASE resp.body = BodyObject -> "error_description"
      [] resp.body = BodyEmpty -> "Empty response from server (status)"
      [] OTHER -> resp.body

\* The adapter after a 200 answer with a JSON object: the token is stored
\* first, then the domain, then the expiry (lines 203 to 216).
StoreToken(a, resp, t) ==
    LET a1 == [a EXCEPT !.access_token = resp.access_token]
        a2 == IF Truthy(resp.domain) THEN [a1 EXCEPT !.domain = resp.domain] ELSE a1
    IN  IF resp.expires_bad THEN a2
        ELSE IF resp.expires_in # NoneInt /\ resp.expires_in # 0
        THEN [a2 EXCEPT !.token_expires = t + resp.expires_in]
        ELSE a2

\* What _authenticate does with the answer to its token request, received at
\* instant t: the result it returns and the adapter it leaves (sent is filled
\* in by Authenticate).
AuthHandleResponse(a, resp, t) ==
    CASE resp.type = "timeout" ->
            [result |-> Fail("AUTH_TIMEOUT", <<"OAuth token request timed out">>),
             adapter |-> a, sent |-> FALSE]
      [] resp.type = "error" ->
            [result |-> Fail("AUTH_ERROR", <<"OAuth token request failed: ", "error">>),
             adapter |-> a, sent |-> FALSE]
      [] resp.type = "http" /\ resp.status # 200 ->
            [result |-> Fail("AUTH_ERROR",
                             <<"OAuth authentication failed: ", StatusStr(resp.status),
                               " - ", AuthErrorMsg(resp)>>),
             adapter |-> a, sent |-> FALSE]
      [] resp.type = "http" /\ resp.status = 200 /\ IsBlank(resp.body) ->
            [result |-> Fail("AUTH_ERROR", <<"Empty response from OAuth endpoint">>),
             adapter |-> a, sent |-> FALSE]
      [] resp.type = "http" /\ resp.status = 200 /\ ~IsBlank(resp.body)
            /\ ~IsJson(resp.body) ->
            [result |-> Fail("AUTH_ERROR",
                             <<"Invalid JSON response from OAuth endpoint: ", "error">>),
             adapter |-> a, sent |-> FALSE]
      [] resp.type = "http" /\ resp.status = 200 /\ IsJson(resp.body)
            /\ ~IsDict(resp.body) ->
            \* token_data.get raises AttributeError, caught at line 226
            [result |-> Fail("AUTH_ERROR", <<"OAuth token request failed: ", "error">>),
             adapter |-> a, sent |-> FALSE]
      [] OTHER ->
            IF resp.expires_bad
            THEN \* timedelta(seconds=...) raises TypeError, caught at line 226
                 [result |-> Fail("AUTH_ERROR", <<"OAuth token request failed: ", "error">>),
                  adapter |-> StoreToken(a, resp, t), sent |-> FALSE]
            ELSE [result |-> Ok("authenticated"), adapter |-> StoreToken(a, resp, t), sent |-> FALSE]

\* _authenticate run without interruption at instant t: sent tells whether the
\* token request was issued.
Authenticate(a, resp, t) ==
    IF ~AuthValidate(a).success
    THEN [result |-> AuthValidate(a), adapter |-> a, sent |-> FALSE]
    ELSE [AuthHandleResponse(a, resp, t) EXCEPT !.sent = TRUE]

----------------------------------------------------------------------------
\* NetSapiensAdapter._make_request

TokenRequest == [kind |-> "token", bearer |-> NoneStr]

\* the API request with the headers built at lines 263 to 265
ApiRequest(a) ==
    [kind |-> "api",
     bearer |-> IF Truthy(a.access_token) THEN a.access_token ELSE NoneStr]

\* an expiry check that still trusts the token at the instant it expires
TokenExpiredStrictly(a, t) == a.token_expires # NoneInt /\ t > a.token_expires

\* "if self._token_expires and datetime.now() >= self._token_expires"
TokenExpired(a, t) == a.token_expires # NoneInt /\ t >= a.token_expires

\* the parsed payload handed to AdapterResult.ok: {} for an empty body
ParsedData(body) == IF IsBlank(body) THEN "{}" ELSE body

\* What _make_request returns for the answer to its API request.
ApiHandleResponse(resp) ==
    CASE resp.type = "timeout" -> Fail("TIMEOUT", <<"Request timed out">>)
      [] resp.type = "error" -> Fail("REQUEST_ERROR", <<"error">>)
      [] resp.type = "http" /\ resp.status >= 400 ->
            FailWith("HTTP_" \o StatusStr(resp.status),
                     <<"API request failed: ", StatusStr(resp.status)>>,
                     [NoDetails EXCEPT !.response = resp.body])
      [] resp.type = "http" /\ resp.status < 400 /\ ~IsBlank(resp.body)
            /\ ~IsJson(resp.body) ->
            FailWith("PARSE_ERROR", <<"Invalid JSON response from API: ", "error">>,
                     [NoDetails EXCEPT !.response_preview = Cut(resp.body, PreviewLimit)])
      [] OTHER -> Ok(ParsedData(resp.body))

\* the requests an _authenticate run sent
AuthRequests(au) == IF au.sent THEN <<TokenRequest>> ELSE <<>>

\* A _make_request that goes on to the API request whatever _authenticate
\* returned
AfterRefreshIgnoringFailure(au, apiResp) ==
    [result |-> ApiHandleResponse(apiResp), adapter |-> au.adapter,
     reqs |-> Append(AuthRequests(au), ApiRequest(au.adapter))]

\* _make_request after "auth_result = await self._authenticate()": it returns
\* the failed result, or goes on to the API request with the new token
AfterRefresh(au, apiResp) ==
    IF ~au.result.success
    THEN [result |-> au.result, adapter |-> au.adapter, reqs |-> AuthRequests(au)]
    ELSE [result |-> ApiHandleResponse(apiResp), adapter |-> au.adapter,
          reqs |-> Append(AuthRequests(au), ApiRequest(au.adapter))]

MsgAdapterNotConnected == <<"Adapter not connected. Call connect() first.">>

\* a _make_request that sends the API request again after a timeout
MakeRequestRetrying(a, t, tokResp, apiResp) ==
    IF a.client = 0
    THEN [result |-> Fail("NOT_CONNECTED", MsgAdapterNotConnected),
          adapter |-> a, reqs |-> <<>>]
    ELSE IF TokenExpired(a, t)
    THEN AfterRefresh(Authenticate(a, tokResp, t), apiResp)
    ELSE [result |-> ApiHandleResponse(apiResp), adapter |-> a,
          reqs |-> IF apiResp.type = "timeout" /\ a.max_retries > 0
                   THEN <<ApiRequest(a), ApiRequest(a)>>
                   ELSE <<ApiRequest(a)>>]

\* _make_request run without interruption at instant t, the vendor answering
\* tokResp to a token request and apiResp to the API request: the result, the
\* adapter it leaves and the requests it sent, in order.
MakeRequest(a, t, tokResp, apiResp) ==
    IF a.client = 0
    THEN [result |-> Fail("NOT_CONNECTED", MsgAdapterNotConnected),
          adapter |-> a, reqs |-> <<>>]
    ELSE IF TokenExpired(a, t)
    THEN AfterRefresh(Authenticate(a, tokResp, t), apiResp)
    ELSE [result |-> ApiHandleResponse(apiResp), adapter |-> a,
          reqs |-> <<ApiRequest(a)>>]

----------------------------------------------------------------------------
\* NetSapiensAdapter connect and disconnect

\* connect() after "auth_result = await self._authenticate()"
AfterAuthenticate(au) ==
    [result |-> IF au.result.success THEN Ok("connected") ELSE au.result,
     adapter |-> au.adapter,
     opened |-> 1,
     reqs |-> AuthRequests(au)]

\* connect(): a new httpx.AsyncClient replaces self._client, then
\* _authenticate runs. nclients is the number of clients opened before.
NSConnect(a, tokResp, t, nclients) ==
    AfterAuthenticate(Authenticate([a EXCEPT !.client = nclients + 1], tokResp, t))

\* a disconnect() that closes the client and keeps the reference to it
NSDisconnectKeepingClient(a, cl) ==
    IF a.client # 0
    THEN [adapter |-> a,
          clients |-> [cl EXCEPT ![a.client] = @ + 1],
          raised |-> NoneStr]
    ELSE [adapter |-> a, clients |-> cl, raised |-> NoneStr]

\* disconnect(): "if self._client: await self._client.aclose(); self._client = None"
NSDisconnect(a, cl) ==
    IF a.client # 0
    THEN [adapter |-> [a EXCEPT !.client = 0],
          clients |-> [cl EXCEPT ![a.client] = @ + 1],
          raised |-> NoneStr]
    ELSE [adapter |-> a, clients |-> cl, raised |-> NoneStr]

----------------------------------------------------------------------------
\* NetSapiensAdapter resource and call operations

\* How each operation uses the payload of a successful _make_request:
\* "list" reads a list and a total with result.data.get and maps every item,
\* "entity" maps result.data with _transform_user/_device/_call,
\* "field" reads one key with result.data.get, "none" ignores the payload.
NSPayloadUse(method) ==
    CASE method \in {"list_users", "list_devices", "get_active_calls"} -> "list"
      [] method \in {"get_user", "create_user", "update_user", "get_device",
                     "create_device", "get_call"} -> "entity"
      [] method \in {"create_conference", "start_recording", "park_call",
                     "unpark_call"} -> "field"
      [] OTHER -> "none"

\* result.data.get("subscribers", []): the number of records under the key
Records(data) ==
    CASE data = BodyList -> 2
      [] data = BodyListTotal -> 6
      [] OTHER -> 0

\* result.data.get("total", len(items))
VendorTotal(data) == IF data = BodyListTotal THEN 9 ELSE Records(data)

\* the VoIPUserList, VoIPDeviceList or VoIPCallList a list operation builds:
\* every record of the answer is transformed
NSListPage(data, page, page_size) ==
    [items |-> [i \in 1..Records(data) |-> "record"],
     total |-> VendorTotal(data), page |-> page, page_size |-> page_size,
     has_more |-> (page * page_size) < VendorTotal(data)]

\* The code after "if not result.success: return result". result.data.get
\* raises AttributeError when the payload is not a dict; the pydantic models
\* raise ValidationError on null or invalid values in mapped fields. No
\* operation catches either.
NSTranslate(method, data, args) ==
    CASE NSPayloadUse(method) = "none" -> Ok(method)
      [] NSPayloadUse(method) = "field" ->
            IF data = BodyNonObject THEN Raise("AttributeError") ELSE Ok(method)
      [] NSPayloadUse(method) = "entity" ->
            IF data = BodyNonObject THEN Raise("AttributeError")
            ELSE IF data = BodyBadObject THEN Raise("ValidationError")
            ELSE Ok([id |-> IF data = BodyObject THEN "ns-id" ELSE ""])
      [] OTHER ->
            IF data = BodyNonObject THEN Raise("AttributeError")
            ELSE IF data = BodyBadObject THEN Raise("ValidationError")
            ELSE Ok(NSListPage(data, args.page, args.page_size))

\* an operation after "result = await self._make_request(...)"
AfterRequest(method, args, mr) ==
    [result |-> IF mr.result.success
                THEN NSTranslate(method, mr.result.data, args)
                ELSE mr.result,
     adapter |-> mr.adapter,
     reqs |-> mr.reqs,
     made |-> mr.result]

\* One operation of the adapter, run without interruption.
NSOperation(a, method, args, t, tokResp, apiResp) ==
    AfterRequest(method, args, MakeRequest(a, t, tokResp, apiResp))

----------------------------------------------------------------------------
\* What NetSapiensAdapter logs: each line is the tuple of the pieces its
\* f-string is made of

\* an _authenticate that logs the form it posts when the request fails
AuthResponseLogWithForm(a, resp) ==
    IF resp.type = "http" /\ resp.status = 200 /\ IsDict(resp.body)
    THEN << <<"Authenticated with NetSapiens (OAuth)">> >>
    ELSE << <<"OAuth token request failed: ", a.creds.grant_type, a.client_id,
              a.client_secret>> >>

\* the lines _authenticate logs for the answer to its token request
AuthResponseLog(a, resp) ==
    CASE resp.type = "timeout" -> <<>>
      [] resp.type = "error" -> << <<"OAuth token request failed: ", "error">> >>
      [] resp.type = "http" /\ resp.status # 200 ->
            << <<"OAuth token request failed: ", StatusStr(resp.status), " - ",
                 resp.body>> >>
      [] resp.type = "http" /\ resp.status = 200 /\ IsBlank(resp.body) -> <<>>
      [] resp.type = "http" /\ resp.status = 200 /\ ~IsBlank(resp.body)
            /\ ~IsJson(resp.body) ->
            << <<"Failed to parse OAuth response as JSON: ", "error",
                 ". Response: ", resp.body>> >>
      [] resp.type = "http" /\ resp.status = 200 /\ IsJson(resp.body)
            /\ ~IsDict(resp.body) ->
            << <<"OAuth token request failed: ", "error">> >>
      [] OTHER ->
            (IF Truthy(resp.domain)
             THEN << <<"Using domain from OAuth response: ", resp.domain,
                       " (was: ", "config.domain", ")">> >>
             ELSE <<>>)
            \o (IF resp.expires_bad
                THEN << <<"OAuth token request failed: ", "error">> >>
                ELSE << <<"Authenticated with NetSapiens (OAuth)">> >>)

\* _authenticate logs nothing when it returns before the token request
AuthLog(a, resp) ==
    IF ~AuthValidate(a).success THEN <<>> ELSE AuthResponseLog(a, resp)

\* connect(): the lines of _authenticate, then the domain when it succeeded
NSConnectLog(a, tokResp, t) ==
    AuthLog(a, tokResp)
    \o (IF Authenticate(a, tokResp, t).result.success
        THEN << <<"Connected to NetSapiens domain: ",
                  Authenticate(a, tokResp, t).adapter.domain>> >>
        ELSE <<>>)

\* the lines _make_request logs for the answer to its API request
ApiResponseLog(resp) ==
    CASE resp.type = "error" -> << <<"Request failed: ", "error">> >>
      [] resp.type = "http" /\ resp.status >= 400 ->
            << <<"NetSapiens API error: ", StatusStr(resp.status), " - ",
                 resp.body>> >>
      [] resp.type = "http" /\ resp.status < 400 /\ ~IsBlank(resp.body)
            /\ ~IsJson(resp.body) ->
            << <<"Failed to parse API response as JSON: ", "error",
                 ". Response: ", resp.body>> >>
      [] OTHER -> <<>>

\* the lines one _make_request logs
MakeRequestLog(a, t, tokResp, apiResp) ==
    IF a.client = 0 THEN <<>>
    ELSE IF TokenExpired(a, t)
    THEN << <<"Access token expired, re-authenticating...">> >>
         \o AuthLog(a, tokResp)
         \o (IF Authenticate(a, tokResp, t).result.success
             THEN ApiResponseLog(apiResp) ELSE <<>>)
    ELSE ApiResponseLog(apiResp)

----------------------------------------------------------------------------
\* MockAdapter: strings that list_users searches are tuples of characters

NoneChars == <<"None">>

\* str.lower(), character by character
LowerChar(c) ==
    CASE c = "A" -> "a" [] c = "B" -> "b" [] c = "C" -> "c" [] c = "D" -> "d"
      [] c = "E" -> "e" [] c = "F" -> "f" [] c = "G" -> "g" [] c = "H" -> "h"
      [] c = "I" -> "i" [] c = "J" -> "j" [] c = "K" -> "k" [] c = "L" -> "l"
      [] c = "M" -> "m" [] c = "N" -> "n" [] c = "O" -> "o" [] c = "P" -> "p"
      [] c = "Q" -> "q" [] c = "R" -> "r" [] c = "S" -> "s" [] c = "T" -> "t"
      [] c = "U" -> "u" [] c = "V" -> "v" [] c = "W" -> "w" [] c = "X" -> "x"
      [] c = "Y" -> "y" [] c = "Z" -> "z" [] OTHER -> c

LowerChars(s) == [i \in 1..Len(s) |-> LowerChar(s[i])]

\* Python "sub in s" on strings
Contains(sub, s) ==
    \E i \in 0..(Len(s) - Len(sub)) : SubSeq(s, i + 1, i + Len(sub)) = sub

DigitStr(d) ==
    CASE d = 0 -> "0" [] d = 1 -> "1" [] d = 2 -> "2" [] d = 3 -> "3"
      [] d = 4 -> "4" [] d = 5 -> "5" [] d = 6 -> "6" [] d = 7 -> "7"
      [] d = 8 -> "8" [] OTHER -> "9"

\* f"{n:03d}" and str(n) for 100 <= n <= 999
Pad3(n) == DigitStr(n \div 100) \o DigitStr((n \div 10) % 10) \o DigitStr(n % 10)

Pad3Chars(n) == <<DigitStr(n \div 100), DigitStr((n \div 10) % 10), DigitStr(n % 10)>>

MockUser(id, username, email, first_name, last_name, extension, did, department, status) ==
    [id |-> id, username |-> username, email |-> email, first_name |-> first_name,
     last_name |-> last_name, extension |-> extension, did |-> did,
     department |-> department, status |-> status]

MockDevice(id, name, device_type, user_id, mac_address, manufacturer, model, status) ==
    [id |-> id, name |-> name, device_type |-> device_type, user_id |-> user_id,
     mac_address |-> mac_address, manufacturer |-> manufacturer, model |-> model,
     status |-> status]

MOCK_USERS ==
    <<
      MockUser("user-001",
        <<"j", "s", "m", "i", "t", "h">>,
        <<"j", "o", "h", "n", ".", "s", "m", "i", "t", "h", "@", "t", "e", "s", "t", "d", "e", "n", "t", "a", "l", ".", "c", "o", "m">>,
        <<"J", "o", "h", "n">>, <<"S", "m", "i", "t", "h">>,
        <<"1", "0", "1">>, "+15551234101", "Front Desk", "active"),
      MockUser("user-002",
        <<"m", "j", "o", "h", "n", "s", "o", "n">>,
        <<"m", "a", "r", "y", ".", "j", "o", "h", "n", "s", "o", "n", "@", "t", "e", "s", "t", "d", "e", "n", "t", "a", "l", ".", "c", "o", "m">>,
        <<"M", "a", "r", "y">>, <<"J", "o", "h", "n", "s", "o", "n">>,
        <<"1", "0", "2">>, "+15551234102", "Hygiene", "active"),
      MockUser("user-003",
        <<"d", "r", "w", "i", "l", "l", "i", "a", "m", "s">>,
        <<"d", "r", ".", "w", "i", "l", "l", "i", "a", "m", "s", "@", "t", "e", "s", "t", "d", "e", "n", "t", "a", "l", ".", "c", "o", "m">>,
        <<"R", "o", "b", "e", "r", "t">>, <<"W", "i", "l", "l", "i", "a", "m", "s">>,
        <<"1", "0", "3">>, "+15551234103", "Dentist", "active"),
      MockUser("user-004",
        <<"s", "b", "r", "o", "w", "n">>,
        <<"s", "a", "r", "a", "h", ".", "b", "r", "o", "w", "n", "@", "t", "e", "s", "t", "d", "e", "n", "t", "a", "l", ".", "c", "o", "m">>,
        <<"S", "a", "r", "a", "h">>, <<"B", "r", "o", "w", "n">>,
        <<"1", "0", "4">>, "+15551234104", "Front Desk", "active"),
      MockUser("user-005",
        <<"d", "r", "d", "a", "v", "i", "s">>,
        <<"d", "r", ".", "d", "a", "v", "i", "s", "@", "t", "e", "s", "t", "d", "e", "n", "t", "a", "l", ".", "c", "o", "m">>,
        <<"E", "m", "i", "l", "y">>, <<"D", "a", "v", "i", "s">>,
        <<"1", "0", "5">>, "+15551234105", "Dentist", "active"),
      MockUser("user-006",
        <<"j", "g", "a", "r", "c", "i", "a">>,
        <<"j", "o", "s", "e", ".", "g", "a", "r", "c", "i", "a", "@", "t", "e", "s", "t", "d", "e", "n", "t", "a", "l", ".", "c", "o", "m">>,
        <<"J", "o", "s", "e">>, <<"G", "a", "r", "c", "i", "a">>,
        <<"1", "0", "6">>, "+15551234106", "Billing", "active"),
      MockUser("user-007",
        <<"a", "m", "i", "l", "l", "e", "r">>,
        <<"a", "m", "a", "n", "d", "a", ".", "m", "i", "l", "l", "e", "r", "@", "t", "e", "s", "t", "d", "e", "n", "t", "a", "l", ".", "c", "o", "m">>,
        <<"A", "m", "a", "n", "d", "a">>, <<"M", "i", "l", "l", "e", "r">>,
        <<"1", "0", "7">>, "+15551234107", "Hygiene", "inactive"),
      MockUser("user-008",
        <<"t", "w", "a", "n", "g">>,
        <<"t", "o", "m", ".", "w", "a", "n", "g", "@", "t", "e", "s", "t", "d", "e", "n", "t", "a", "l", ".", "c", "o", "m">>,
        <<"T", "o", "m">>, <<"W", "a", "n", "g">>,
        <<"1", "0", "8">>, "+15551234108", "IT", "active")
    >>

MOCK_DEVICES ==
    <<
      MockDevice("device-001", "Front Desk Phone 1", "desk_phone", "user-001",
        "AA:BB:CC:DD:EE:01", "Polycom", "VVX 450", "online"),
      MockDevice("device-002", "Front Desk Phone 2", "desk_phone", "user-004",
        "AA:BB:CC:DD:EE:02", "Polycom", "VVX 450", "online"),
      MockDevice("device-003", "Hygiene Room 1", "desk_phone", "user-002",
        "AA:BB:CC:DD:EE:03", "Yealink", "T46U", "online"),
      MockDevice("device-004", "Dr. Williams Office", "desk_phone", "user-003",
        "AA:BB:CC:DD:EE:04", "Polycom", "VVX 601", "offline"),
      MockDevice("device-005", "Dr. Davis Office", "desk_phone", "user-005",
        "AA:BB:CC:DD:EE:05", "Polycom", "VVX 601", "online"),
      MockDevice("device-006", "Billing Softphone", "softphone", "user-006",
        NoneStr, "NetSapiens", "Desktop App", "online"),
      MockDevice("device-007", "Conference Room", "conference", NoneStr,
        "AA:BB:CC:DD:EE:07", "Poly", "Trio 8500", "online")
    >>

\* MockAdapter.__init__: the dicts keep their insertion order, so they are
\* sequences of records here
MockAdapter ==
    [kind |-> "mock", provider_name |-> "Mock Provider", client |-> 0,
     creds |-> Credentials(NoneStr, NoneStr, "", NoneStr, NoneStr),
     client_id |-> "", client_secret |-> "", domain |-> "",
     access_token |-> NoneStr, token_expires |-> NoneInt,
     users |-> MOCK_USERS, next_user_id |-> 9,
     devices |-> MOCK_DEVICES, next_device_id |-> 8,
     max_retries |-> DefaultMaxRetries]

\* "key in self._users" and self._users[key]
HasId(recs, id) == \E i \in 1..Len(recs) : recs[i].id = id

ById(recs, id) == recs[CHOOSE i \in 1..Len(recs) : recs[i].id = id]

\* del self._users[key]
Without(recs, id) == SelectSeq(recs, LAMBDA r : r.id # id)

\* _to_voip_user: the normalized record (created_at and provider_metadata aside)
ToVoipUser(u) ==
    [id |-> u.id, username |-> u.username, email |-> u.email,
     first_name |-> u.first_name, last_name |-> u.last_name,
     extension |-> u.extension, did |-> u.did, department |-> u.department,
     status |-> IF u.status = "inactive" THEN "inactive" ELSE "active"]

\* _to_voip_device
ToVoipDevice(d) ==
    [id |-> d.id, name |-> d.name,
     device_type |-> IF d.device_type \in {"desk_phone", "softphone", "conference"}
                     THEN d.device_type ELSE "other",
     user_id |-> d.user_id, mac_address |-> d.mac_address,
     manufacturer |-> d.manufacturer, model |-> d.model,
     status |-> IF d.status \in {"online", "offline"} THEN d.status ELSE "unknown"]

\* The search predicate of list_users on one user: the fields are tried in
\* order and "or" stops at the first that contains the search string;
\* u.get(key, "") is None when the key holds None, and None.lower() raises
\* AttributeError.
RECURSIVE SearchFields(_, _)
SearchFields(search, fields) ==
    IF fields = <<>> THEN "no"
    ELSE IF Head(fields) = NoneChars THEN "raise"
    ELSE IF Contains(search, LowerChars(Head(fields))) THEN "yes"
    ELSE SearchFields(search, Tail(fields))

SearchUser(search, u) ==
    SearchFields(LowerChars(search),
                 <<u.username, u.email, u.first_name, u.last_name, u.extension>>)

\* users[start:end] for 0 <= start
Slice(recs, start, end) ==
    SubSeq(recs, start + 1, IF end < Len(recs) THEN end ELSE Len(recs))

Page(items, total, page, page_size, has_more) ==
    [items |-> items, total |-> total, page |-> page, page_size |-> page_size,
     has_more |-> has_more]

\* MockAdapter.list_users; search and status are falsy when None or empty
MockListUsers(a, page, page_size, search, status) ==
    LET filtering == search # NoneChars /\ search # <<>>
        raises == filtering /\ \E i \in 1..Len(a.users) :
                                  SearchUser(search, a.users[i]) = "raise"
        found == IF filtering
                 THEN SelectSeq(a.users, LAMBDA u : SearchUser(search, u) = "yes")
                 ELSE a.users
        users == IF Truthy(status)
                 THEN SelectSeq(found, LAMBDA u : u.status = status)
                 ELSE found
        total == Len(users)
        start == (page - 1) * page_size
        end == start + page_size
        page_users == Slice(users, start, end)
    IN  IF raises THEN Raise("AttributeError")
        ELSE Ok(Page([i \in 1..Len(page_users) |-> ToVoipUser(page_users[i])],
                     total, page, page_size, end < total))

MsgUserNotFound(id) == <<"User not found: ", id>>

\* MockAdapter.get_user
MockGetUser(a, user_id) ==
    IF ~HasId(a.users, user_id) THEN Fail("NOT_FOUND", MsgUserNotFound(user_id))
    ELSE Ok(ToVoipUser(ById(a.users, user_id)))

\* A create_user that returns the payload as it was supplied, without the
\* default extension the stored record gets
MockCreateUserEchoingInput(a, user_data) ==
    LET n == a.next_user_id
        new_user ==
            MockUser("user-" \o Pad3(n), user_data.username, user_data.email,
                     user_data.first_name, user_data.last_name,
                     IF user_data.extension # NoneChars /\ user_data.extension # <<>>
                     THEN user_data.extension ELSE Pad3Chars(100 + n + 1),
                     "+1555123" \o Pad3(100 + n + 1),
                     user_data.department, "active")
    IN  [result |-> Ok(ToVoipUser([new_user EXCEPT !.extension = user_data.extension])),
         adapter |-> [a EXCEPT !.next_user_id = n + 1,
                               !.users = Append(a.users, new_user)]]

\* MockAdapter.create_user: the counter is incremented before the default
\* extension and the did are derived from it
MockCreateUser(a, user_data) ==
    LET n == a.next_user_id
        new_user ==
            MockUser("user-" \o Pad3(n), user_data.username, user_data.email,
                     user_data.first_name, user_data.last_name,
                     IF user_data.extension # NoneChars /\ user_data.extension # <<>>
                     THEN user_data.extension ELSE Pad3Chars(100 + n + 1),
                     "+1555123" \o Pad3(100 + n + 1),
                     user_data.department, "active")
    IN  [result |-> Ok(ToVoipUser(new_user)),
         adapter |-> [a EXCEPT !.next_user_id = n + 1,
                               !.users = Append(a.users, new_user)]]

\* MockAdapter.update_user: email, first_name, last_name, extension and
\* status are written when not None
MockUpdateUser(a, user_id, user_data) ==
    IF ~HasId(a.users, user_id)
    THEN [result |-> Fail("NOT_FOUND", MsgUserNotFound(user_id)), adapter |-> a]
    ELSE LET old == ById(a.users, user_id)
             user == [old EXCEPT
                        !.email = IF user_data.email # NoneChars
                                  THEN user_data.email ELSE @,
                        !.first_name = IF user_data.first_name # NoneChars
                                       THEN user_data.first_name ELSE @,
                        !.last_name = IF user_data.last_name # NoneChars
                                      THEN user_data.last_name ELSE @,
                        !.extension = IF user_data.extension # NoneChars
                                      THEN user_data.extension ELSE @,
                        !.status = IF user_data.status # NoneStr
                                   THEN user_data.status ELSE @]
         IN  [result |-> Ok(ToVoipUser(user)),
              adapter |-> [a EXCEPT !.users =
                              [i \in 1..Len(a.users) |->
                                  IF a.users[i].id = user_id THEN user ELSE a.users[i]]]]

\* MockAdapter.delete_user
MockDeleteUser(a, user_id) ==
    IF ~HasId(a.users, user_id)
    THEN [result |-> Fail("NOT_FOUND", MsgUserNotFound(user_id)), adapter |-> a]
    ELSE [result |-> Ok("deleted"), adapter |-> [a EXCEPT !.users = Without(a.users, user_id)]]

\* MockAdapter.list_devices
MockListDevices(a, page, page_size, user_id) ==
    LET devices == IF Truthy(user_id)
                   THEN SelectSeq(a.devices, LAMBDA d : d.user_id = user_id)
                   ELSE a.devices
        total == Len(devices)
        start == (page - 1) * page_size
        end == start + page_size
        page_devices == Slice(devices, start, end)
    IN  Ok(Page([i \in 1..Len(page_devices) |-> ToVoipDevice(page_devices[i])],
                total, page, page_size, end < total))

MsgDeviceNotFound(id) == <<"Device not found: ", id>>

\* MockAdapter.get_device
MockGetDevice(a, device_id) ==
    IF ~HasId(a.devices, device_id) THEN Fail("NOT_FOUND", MsgDeviceNotFound(device_id))
    ELSE Ok(ToVoipDevice(ById(a.devices, device_id)))

\* MockAdapter.create_device
MockCreateDevice(a, device_data) ==
    LET n == a.next_device_id
        new_device ==
            MockDevice("device-" \o Pad3(n), device_data.name, device_data.device_type,
                       device_data.user_id, device_data.mac_address,
                       device_data.manufacturer, device_data.model, "offline")
    IN  [result |-> Ok(ToVoipDevice(new_device)),
         adapter |-> [a EXCEPT !.next_device_id = n + 1,
                               !.devices = Append(a.devices, new_device)]]

\* MockAdapter.delete_device
MockDeleteDevice(a, device_id) ==
    IF ~HasId(a.devices, device_id)
    THEN [result |-> Fail("NOT_FOUND", MsgDeviceNotFound(device_id)), adapter |-> a]
    ELSE [result |-> Ok("deleted"),
          adapter |-> [a EXCEPT !.devices = Without(a.devices, device_id)]]

----------------------------------------------------------------------------
\* BaseVoIPAdapter: the contract and its optional operations

MandatoryMethods ==
    {"list_users", "get_user", "create_user", "update_user", "delete_user",
     "list_devices", "get_device", "create_device", "delete_device"}

CallControlMethods ==
    {"get_active_calls", "get_call", "transfer_call", "hold_call", "resume_call",
     "mute_call", "unmute_call", "hangup_call", "create_conference",
     "add_to_conference", "remove_from_conference", "start_recording",
     "stop_recording", "park_call", "unpark_call"}

\* the optional operations outside call control
OtherOptionalMethods ==
    {"list_call_queues", "get_call_queue", "get_call_history", "get_recording",
     "list_phone_numbers", "get_phone_number", "list_voicemails", "get_voicemail",
     "delete_voicemail", "create_meeting", "get_meeting", "list_meetings",
     "delete_meeting"}

OptionalMethods == CallControlMethods \cup OtherOptionalMethods

AdapterMethods == MandatoryMethods \cup OptionalMethods

\* the capability the default body of an optional operation names
Capability(method) ==
    CASE method \in {"list_call_queues", "get_call_queue"} -> "call queues"
      [] method \in CallControlMethods -> "call control"
      [] method = "get_call_history" -> "call history"
      [] method = "get_recording" -> "recordings"
      [] method \in {"list_phone_numbers", "get_phone_number"} ->
            "phone number management"
      [] method \in {"list_voicemails", "get_voicemail", "delete_voicemail"} ->
            "voicemail"
      [] OTHER -> "meetings"

\* the operations each adapter class defines itself
Overrides(kind) ==
    CASE kind = "mock" -> MandatoryMethods
      [] kind = "netsapiens" -> MandatoryMethods \cup CallControlMethods
      [] OTHER -> {}

\* a default body that does not name the provider
NotSupportedUnnamed(a, what) ==
    Fail("NOT_SUPPORTED", <<"Provider", " does not support ", what>>)

\* the default body of an optional operation
NotSupported(a, what) ==
    Fail("NOT_SUPPORTED", <<a.provider_name, " does not support ", what>>)

\* the arguments of one call: the resource id, the pagination parameters, the
\* search string or user filter, and the create/update payload
Args(id, page, page_size, search, filter, user_data, device_data) ==
    [id |-> id, page |-> page, page_size |-> page_size, search |-> search,
     filter |-> filter, user_data |-> user_data, device_data |-> device_data]

\* VoIPUserCreate / VoIPUserUpdate
UserData(username, email, first_name, last_name, extension, department, status) ==
    [username |-> username, email |-> email, first_name |-> first_name,
     last_name |-> last_name, extension |-> extension, department |-> department,
     status |-> status]

\* VoIPDeviceCreate
DeviceData(name, device_type, mac_address, user_id, manufacturer, model) ==
    [name |-> name, device_type |-> device_type, mac_address |-> mac_address,
     user_id |-> user_id, manufacturer |-> manufacturer, model |-> model]

\* One operation of MockAdapter: the nine mandatory operations are overridden,
\* every other one is the default of BaseVoIPAdapter.
MockOperation(a, method, args) ==
    CASE method = "list_users" ->
            [result |-> MockListUsers(a, args.page, args.page_size, args.search, NoneStr),
             adapter |-> a]
      [] method = "get_user" -> [result |-> MockGetUser(a, args.id), adapter |-> a]
      [] method = "create_user" -> MockCreateUser(a, args.user_data)
      [] method = "update_user" -> MockUpdateUser(a, args.id, args.user_data)
      [] method = "delete_user" -> MockDeleteUser(a, args.id)
      [] method = "list_devices" ->
            [result |-> MockListDevices(a, args.page, args.page_size, args.filter),
             adapter |-> a]
      [] method = "get_device" -> [result |-> MockGetDevice(a, args.id), adapter |-> a]
      [] method = "create_device" -> MockCreateDevice(a, args.device_data)
      [] method = "delete_device" -> MockDeleteDevice(a, args.id)
      [] OTHER -> [result |-> NotSupported(a, Capability(method)), adapter |-> a]

\* MockAdapter sends no vendor request
WithoutRequests(m) == [result |-> m.result, adapter |-> m.adapter, reqs |-> <<>>]

\* One operation of the adapter the caller holds, run without interruption:
\* the result, the adapter it leaves and the vendor requests it sent.
AdapterOperation(a, method, args, t, tokResp, apiResp) ==
    IF a.kind = "mock"
    THEN WithoutRequests(MockOperation(a, method, args))
    ELSE IF method \in Overrides(a.kind)
    THEN NSOperation(a, method, args, t, tokResp, apiResp)
    ELSE WithoutRequests([result |-> NotSupported(a, Capability(method)),
                          adapter |-> a])

\* connect() of the adapter the caller holds
AdapterConnect(a, tokResp, t, nclients) ==
    IF a.kind = "mock"
    THEN [result |-> Ok("connected"), adapter |-> a, opened |-> 0, reqs |-> <<>>]
    ELSE NSConnect(a, tokResp, t, nclients)

\* disconnect() of the adapter the caller holds
AdapterDisconnect(a, cl) ==
    CASE a.kind = "mock" -> [adapter |-> a, clients |-> cl, raised |-> NoneStr]
      [] a.kind = "netsapiens" -> NSDisconnect(a, cl)
      [] OTHER -> \* None has no attribute disconnect
                  [adapter |-> a, clients |-> cl, raised |-> "AttributeError"]

\* the lines the adapter's connect(), disconnect() and operations log
AdapterConnectLog(a, tokResp, t) ==
    IF a.kind = "mock" THEN << <<"Mock adapter connected">> >>
    ELSE NSConnectLog(a, tokResp, t)

AdapterDisconnectLog(a) ==
    CASE a.kind = "mock" -> << <<"Mock adapter disconnected">> >>
      [] a.kind = "netsapiens" -> << <<"Disconnected from NetSapiens">> >>
      [] OTHER -> <<>>

AdapterOperationLog(a, method, t, tokResp, apiResp) ==
    IF a.kind = "netsapiens" /\ method \in Overrides(a.kind)
    THEN MakeRequestLog(a, t, tokResp, apiResp)
    ELSE <<>>

----------------------------------------------------------------------------
\* AdapterRegistry

RegisteredTypes == {"netsapiens", "mock"}

\* AdapterRegistry.is_supported
IsSupported(provider_type) == Lower(provider_type) \in RegisteredTypes

\* f"Unsupported provider: {provider_type}. Supported: {supported}"
MsgUnsupportedProvider(provider_type) ==
    <<"Unsupported provider: ", provider_type, ". Supported: ",
      "netsapiens", ", ", "mock">>

\* AdapterRegistry.get_adapter for a supported type: a new adapter object
GetAdapter(provider_type, creds, domain) ==
    IF Lower(provider_type) = "mock" THEN MockAdapter
    ELSE NetSapiensAdapter(creds, domain)

----------------------------------------------------------------------------
\* The stored rows VoIPService reads and writes

ConnectionStatuses == {"pending", "active", "inactive", "error"}

ProviderTypes == {"mock", "NetSapiens", "ringcentral"}

ConfigDomain == "practice.example"

Connection(exists, status, last_error, provider_type) ==
    [exists |-> exists, status |-> status, last_error |-> last_error,
     provider_type |-> provider_type]


Credential(exists, decryptable, data) ==
    [exists |-> exists, decryptable |-> decryptable, data |-> data]

\* the credential map the stored row of this model holds
StoredCredentials == Credentials(NoneStr, "cid", "sec", NoneStr, NoneStr)

----------------------------------------------------------------------------
\* VoIPService

\* VoIPService.__init__; _connection is kept as None or "loaded", since no
\* method reads a field of a connection loaded by an earlier connect()
NewService == [_connection |-> NoneStr, _connected |-> FALSE]

\* what the caller of a VoIPService method observes: the VoIPServiceError
\* raised (code, message), another exception raised, or a normal return;
\* and what the call did meanwhile
Outcome(op, id, code, message, raised, data, calls, returned, created, reqs, logged, saved) ==
    [op |-> op, id |-> id, code |-> code, message |-> message, raised |-> raised,
     data |-> data,
     calls |-> calls,        \* adapter methods invoked, in order
     returned |-> returned,  \* what the adapter method returned: success, code, message
     created |-> created,    \* adapters instantiated
     reqs |-> reqs,          \* vendor requests sent, in order
     logged |-> logged,      \* audit entries handed to _log_action, in order
     saved |-> saved]        \* the connection row was saved

\* the part of an AdapterResult the service reads
Brief(r) == [success |-> r.success, code |-> r.code, message |-> r.message,
             raised |-> r.raised]

NoResult == Brief(Raise("no call"))

NoOutcome ==
    Outcome("none", "", NoneStr, NoMsg, NoneStr, "", <<>>, NoResult, 0, <<>>, <<>>, FALSE)

\* raise VoIPServiceError(code, message) before anything else was done
ServiceError(op, id, code, message) ==
    Outcome(op, id, code, message, NoneStr, "", <<>>, NoResult, 0, <<>>, <<>>, FALSE)

MsgConnectionNotFound == <<"Provider connection not found: ", "connection_id">>
MsgConnectionInactive == <<"Provider connection is inactive">>
MsgNoCredentials == <<"No credentials configured for this connection">>
MsgCredentialError == <<"Failed to decrypt credentials">>
MsgNotConnected == <<"Service not connected. Call connect() first.">>

\* a connected check that is satisfied once the connection row is loaded
EnsureConnectedLoaded(s) == s._connected \/ s._connection = "loaded"

\* _ensure_connected passes
EnsureConnected(s) == s._connected

\* The audit entry _log_action builds
AuditEntry(action, resource_type, resource_id, result, error_message) ==
    [action |-> action, resource_type |-> resource_type,
     resource_id |-> resource_id, result |-> result,
     error_message |-> error_message]

\* the operations of VoIPService and the adapter method each one invokes
ServiceOperations == MandatoryMethods \cup CallControlMethods

\* the action verb each operation logs
OpAction(op) ==
    CASE op \in {"list_users", "get_user", "list_devices", "get_device",
                 "get_active_calls", "get_call"} -> "read"
      [] op \in {"create_user", "create_device"} -> "create"
      [] op = "update_user" -> "update"
      [] op \in {"delete_user", "delete_device"} -> "delete"
      [] op = "transfer_call" -> "transfer"
      [] op = "hold_call" -> "hold"
      [] op = "resume_call" -> "resume"
      [] op = "mute_call" -> "mute"
      [] op = "unmute_call" -> "unmute"
      [] op = "hangup_call" -> "hangup"
      [] op = "park_call" -> "park"
      [] op = "unpark_call" -> "unpark"
      [] OTHER -> op

OpResourceType(op) ==
    CASE op \in {"list_users", "get_user", "create_user", "update_user",
                 "delete_user"} -> "user"
      [] op \in {"list_devices", "get_device", "create_device",
                 "delete_device"} -> "device"
      [] OTHER -> "call"

\* the operations whose arguments name the resource they log
OpsLoggingId ==
    {"get_user", "update_user", "delete_user", "delete_device", "get_call",
     "transfer_call", "hold_call", "resume_call", "mute_call", "unmute_call",
     "hangup_call", "add_to_conference", "remove_from_conference",
     "start_recording", "stop_recording", "park_call"}

\* The _log_action calls of an operation whose adapter call succeeded:
\* get_device logs nothing, the create operations log the id of the result.
LogOnSuccess(op, args, r) ==
    IF op = "get_device" THEN <<>>
    ELSE <<AuditEntry(OpAction(op), OpResourceType(op),
                      IF op \in {"create_user", "create_device"} THEN r.data.id
                      ELSE IF op \in OpsLoggingId THEN args.id ELSE "",
                      "success", NoMsg)>>

\* The _log_action calls of an operation whose adapter call failed:
\* get_device, create_device and delete_device log nothing.
LogOnFailure(op, args, r) ==
    IF op \in {"get_device", "create_device", "delete_device"} THEN <<>>
    ELSE <<AuditEntry(OpAction(op), OpResourceType(op),
                      IF op \in OpsLoggingId THEN args.id ELSE "",
                      "failure", r.message)>>

\* an error raised with a code of the service's own
RaisedErrorRecoded(r) == [code |-> "ADAPTER_ERROR", message |-> r.message]

\* raise VoIPServiceError(code=result.error.code, message=result.error.message)
RaisedError(r) == [code |-> r.code, message |-> r.message]

\* What one resource operation of the service does once _ensure_connected
\* has passed, given what the adapter call did.
OperationOutcome(op, args, ao) ==
    IF ~Returned(ao.result)
    THEN Outcome(op, args.id, NoneStr, NoMsg, ao.result.raised, "", <<op>>,
                 Brief(ao.result), 0, ao.reqs, <<>>, FALSE)
    ELSE IF ao.result.success
    THEN Outcome(op, args.id, NoneStr, NoMsg, NoneStr, ao.result.data, <<op>>,
                 Brief(ao.result), 0, ao.reqs, LogOnSuccess(op, args, ao.result), FALSE)
    ELSE Outcome(op, args.id, RaisedError(ao.result).code, RaisedError(ao.result).message,
                 NoneStr, "", <<op>>,
                 Brief(ao.result), 0, ao.reqs, LogOnFailure(op, args, ao.result), FALSE)

\* the checks of connect() with the credential loaded before the status test
ConnectPrecheckCredentialFirst(conn, cred) ==
    IF ~conn.exists THEN "CONNECTION_NOT_FOUND"
    ELSE IF ~cred.exists THEN "NO_CREDENTIALS"
    ELSE IF ~cred.decryptable THEN "CREDENTIAL_ERROR"
    ELSE IF conn.status = "inactive" THEN "CONNECTION_INACTIVE"
    ELSE "ok"

\* The checks of connect() that precede the adapter, in source order: the
\* code of the first that fails, or "ok". _load_connection raises when the
\* row is absent, then the status is tested, then _load_credentials raises
\* when the credential row is absent, then _decrypt_credentials raises when
\* json.loads fails.
ConnectPrecheck(conn, cred) ==
    IF ~conn.exists THEN "CONNECTION_NOT_FOUND"
    ELSE IF conn.status = "inactive" THEN "CONNECTION_INACTIVE"
    ELSE IF ~cred.exists THEN "NO_CREDENTIALS"
    ELSE IF ~cred.decryptable THEN "CREDENTIAL_ERROR"
    ELSE "ok"

PrecheckMessage(code) ==
    CASE code = "CONNECTION_NOT_FOUND" -> MsgConnectionNotFound
      [] code = "CONNECTION_INACTIVE" -> MsgConnectionInactive
      [] code = "NO_CREDENTIALS" -> MsgNoCredentials
      [] OTHER -> MsgCredentialError

\* self._connection = await self._load_connection()
ConnectionLoaded(s, conn) ==
    IF conn.exists THEN [s EXCEPT !._connection = "loaded"] ELSE s

\* the clients opened so far, each with the number of times it was closed
Opened(cl, ac) == IF ac.opened = 1 THEN Append(cl, 0) ELSE cl

\* a connect() that marks the connection active when the adapter connected
AfterAdapterConnectActivating(s, conn, cl, ac) ==
    IF ~ac.result.success
    THEN [svc |-> s,
          adapter |-> ac.adapter,
          db_conn |-> [conn EXCEPT !.status = "error",
                                   !.last_error = ac.result.message],
          clients |-> Opened(cl, ac),
          outcome |-> Outcome("connect", "", RaisedError(ac.result).code,
                              RaisedError(ac.result).message, NoneStr, "",
                              <<"connect">>, Brief(ac.result), 1, ac.reqs,
                              <<>>, TRUE)]
    ELSE [svc |-> [s EXCEPT !._connected = TRUE],
          adapter |-> ac.adapter,
          db_conn |-> [conn EXCEPT !.status = "active"],
          clients |-> Opened(cl, ac),
          outcome |-> Outcome("connect", "", NoneStr, NoMsg, NoneStr, "",
                              <<"connect">>, Brief(ac.result), 1, ac.reqs,
                              <<>>, TRUE)]

\* connect() after "result = await self._adapter.connect()": on failure the
\* row is saved with status error and the error is raised, on success
\* self._connected = True
AfterAdapterConnect(s, conn, cl, ac) ==
    IF ~ac.result.success
    THEN [svc |-> s,
          adapter |-> ac.adapter,
          db_conn |-> [conn EXCEPT !.status = "error",
                                   !.last_error = ac.result.message],
          clients |-> Opened(cl, ac),
          outcome |-> Outcome("connect", "", RaisedError(ac.result).code,
                              RaisedError(ac.result).message, NoneStr, "",
                              <<"connect">>, Brief(ac.result), 1, ac.reqs,
                              <<>>, TRUE)]
    ELSE [svc |-> [s EXCEPT !._connected = TRUE],
          adapter |-> ac.adapter, db_conn |-> conn, clients |-> Opened(cl, ac),
          outcome |-> Outcome("connect", "", NoneStr, NoMsg, NoneStr, "",
                              <<"connect">>, Brief(ac.result), 1, ac.reqs,
                              <<>>, FALSE)]

\* A connect() that records the failure of a check in the connection row
PrecheckFailedMarkingError(s, a, conn, cl, code) ==
    [svc |-> ConnectionLoaded(s, conn), adapter |-> a,
     db_conn |-> IF conn.exists
                 THEN [conn EXCEPT !.status = "error",
                                   !.last_error = PrecheckMessage(code)]
                 ELSE conn,
     clients |-> cl,
     outcome |-> ServiceError("connect", "", code, PrecheckMessage(code))]

\* connect() when one of the checks that precede the adapter fails: the
\* error is raised and nothing is saved
PrecheckFailed(s, a, conn, cl, code) ==
    [svc |-> ConnectionLoaded(s, conn), adapter |-> a, db_conn |-> conn,
     clients |-> cl,
     outcome |-> ServiceError("connect", "", code, PrecheckMessage(code))]

\* VoIPService.connect(). Each early raise leaves what the steps before it
\* assigned: self._connection once the row is loaded, self._adapter once the
\* registry returned; self._connected is assigned on success only.
ServiceConnect(s, a, conn, cred, tokResp, t, cl) ==
    IF ConnectPrecheck(conn, cred) # "ok"
    THEN PrecheckFailed(s, a, conn, cl, ConnectPrecheck(conn, cred))
    ELSE IF ~IsSupported(conn.provider_type)
    THEN \* AdapterRegistry.get_adapter raises ValueError
         [svc |-> ConnectionLoaded(s, conn), adapter |-> a, db_conn |-> conn,
          clients |-> cl,
          outcome |-> Outcome("connect", "", NoneStr,
                              MsgUnsupportedProvider(conn.provider_type),
                              "ValueError", "", <<>>, NoResult, 0, <<>>, <<>>, FALSE)]
    ELSE AfterAdapterConnect(ConnectionLoaded(s, conn), conn, cl,
                             AdapterConnect(GetAdapter(conn.provider_type, cred.data,
                                                       ConfigDomain),
                                            tokResp, t, Len(cl)))

\* disconnect() after "await self._adapter.disconnect()"
AfterAdapterDisconnect(s, d) ==
    [svc |-> IF d.raised = NoneStr THEN [s EXCEPT !._connected = FALSE] ELSE s,
     adapter |-> d.adapter,
     clients |-> d.clients,
     outcome |-> Outcome("disconnect", "", NoneStr, NoMsg, d.raised, "",
                         <<"disconnect">>, NoResult, 0, <<>>, <<>>, FALSE)]

\* VoIPService.disconnect(): "if self._adapter: await self._adapter.disconnect();
\* self._connected = False"
ServiceDisconnect(s, a, cl) ==
    IF a.kind # "none"
    THEN AfterAdapterDisconnect(s, AdapterDisconnect(a, cl))
    ELSE [svc |-> s, adapter |-> a, clients |-> cl,
          outcome |-> Outcome("disconnect", "", NoneStr, NoMsg, NoneStr, "",
                              <<>>, NoResult, 0, <<>>, <<>>, FALSE)]

\* a resource operation after "result = await self._adapter.<method>(...)"
AfterAdapterOperation(op, args, ao) ==
    [adapter |-> ao.adapter, outcome |-> OperationOutcome(op, args, ao)]

\* One resource operation of VoIPService: _ensure_connected, then the adapter
\* call and its envelope.
ServiceOperation(s, a, op, args, t, tokResp, apiResp) ==
    IF ~EnsureConnected(s)
    THEN [adapter |-> a,
          outcome |-> ServiceError(op, args.id, "NOT_CONNECTED", MsgNotConnected)]
    ELSE AfterAdapterOperation(op, args, AdapterOperation(a, op, args, t, tokResp, apiResp))

\* a _log_action that lets the exception of a failed audit write propagate
AfterLogActionRaising(outcome, audit_ok) ==
    IF audit_ok THEN outcome
    ELSE [outcome EXCEPT !.code = NoneStr, !.message = NoMsg,
                         !.raised = "DatabaseError"]

\* an operation after "await self._log_action(...)": _create_log catches the
\* exception of AuditLog.objects.create, so the operation goes on to return
\* or raise what it was about to
AfterLogAction(outcome, audit_ok) == outcome

\* the lines connect() and the calls it makes log
ServiceConnectLog(conn, cred, tokResp, t) ==
    IF ConnectPrecheck(conn, cred) = "CREDENTIAL_ERROR"
    THEN << <<"Failed to decrypt credentials: ", "error">> >>
    ELSE IF ConnectPrecheck(conn, cred) # "ok" \/ ~IsSupported(conn.provider_type)
    THEN <<>>
    ELSE << <<"Creating adapter for: ", conn.provider_type>> >>
         \o AdapterConnectLog(GetAdapter(conn.provider_type, cred.data, ConfigDomain),
                              tokResp, t)
         \o (IF AdapterConnect(GetAdapter(conn.provider_type, cred.data, ConfigDomain),
                               tokResp, t, 0).result.success
             THEN << <<"Connected to ", "provider.name", " for ", "practice.name">> >>
             ELSE <<>>)

\* the lines an operation and the calls it makes log; _create_log logs the
\* exception of an audit write that failed
ServiceOperationLog(s, a, op, t, tokResp, apiResp, audit_ok) ==
    (IF EnsureConnected(s) THEN AdapterOperationLog(a, op, t, tokResp, apiResp)
     ELSE <<>>)
    \o (IF audit_ok THEN <<>> ELSE << <<"Failed to create audit log: ", "error">> >>)

----------------------------------------------------------------------------
\* Inputs of the service-level specification

\* the token answers a connect() or a refresh may get
SvcTokenResponses ==
    {TokenResponse("timeout", 0, BodyEmpty, NoneStr, NoneInt, FALSE, NoneStr),
     TokenResponse("http", 401, BodyObject, NoneStr, NoneInt, FALSE, NoneStr),
     TokenResponse("http", 200, BodyObject, "tokA", 1, FALSE, NoneStr)}

\* the API answers an operation may get
SvcApiResponses ==
    {ApiResponse("timeout", 0, BodyEmpty),
     ApiResponse("http", 404, BodyObject),
     ApiResponse("http", 200, BodyObject),
     ApiResponse("http", 200, BodyNonObject)}

\* the vendor answers only the requests that are sent: a token request when
\* the call reaches the vendor adapter with an expired token, an API request
\* when the call reaches the vendor adapter
TokenAnswers(s, a, t) ==
    IF EnsureConnected(s) /\ a.kind = "netsapiens" /\ TokenExpired(a, t)
    THEN SvcTokenResponses
    ELSE {TokenResponse("timeout", 0, BodyEmpty, NoneStr, NoneInt, FALSE, NoneStr)}

ApiAnswers(s, a) ==
    IF EnsureConnected(s) /\ a.kind = "netsapiens"
    THEN SvcApiResponses
    ELSE {ApiResponse("timeout", 0, BodyEmpty)}

NoUserData == UserData(NoneChars, NoneChars, NoneChars, NoneChars, NoneChars, NoneStr, NoneStr)
NoDeviceData == DeviceData(NoneStr, NoneStr, NoneStr, NoneStr, NoneStr, NoneStr)

IdArgs(id) == Args(id, 1, 50, NoneChars, NoneStr, NoUserData, NoDeviceData)

\* the arguments each operation is called with
OpArgs(op) ==
    CASE op = "list_users" ->
            {Args("", 2, 5, NoneChars, NoneStr, NoUserData, NoDeviceData),
             Args("", 1, 50, <<"s", "m", "i", "t", "h">>, NoneStr, NoUserData, NoDeviceData)}
      [] op = "list_devices" ->
            {Args("", 1, 5, NoneChars, "user-001", NoUserData, NoDeviceData)}
      [] op \in {"get_user", "delete_user"} ->
            {IdArgs("user-001"), IdArgs("does-not-exist")}
      [] op = "create_user" ->
            {Args("", 1, 50, NoneChars, NoneStr,
                  UserData(<<"j", "d", "o", "e">>, NoneChars, NoneChars, NoneChars,
                           NoneChars, NoneStr, NoneStr), NoDeviceData)}
      [] op = "update_user" ->
            {Args("user-001", 1, 50, NoneChars, NoneStr,
                  UserData(NoneChars, NoneChars, <<"J", "o">>, NoneChars, NoneChars,
                           "Billing", "suspended"), NoDeviceData)}
      [] op \in {"get_device", "delete_device"} ->
            {IdArgs("device-001"), IdArgs("does-not-exist")}
      [] op = "create_device" ->
            {Args("", 1, 50, NoneChars, NoneStr, NoUserData,
                  DeviceData("Lobby", "desk_phone", "AA:BB:CC:DD:EE:09", NoneStr,
                             NoneStr, NoneStr))}
      [] OTHER -> {IdArgs("call-1")}

----------------------------------------------------------------------------
\* The service-level specification: one VoIPService instance, its caller, the
\* vendor and the external provisioning flow

\* the empty IDMapping table
NoIds == [rows |-> {}, drawn |-> 0]

\* no answer of the vendor, and no result of _make_request
NoAnswer == ApiResponse("none", 0, BodyEmpty)

NoMade == Raise("no call")

\* History kept for the properties: live tells that a connect() succeeded
\* and no disconnect() has run since; prev and cur tell which of the last two
\* calls were disconnect();
\* issued holds the access tokens the vendor has returned; answer and made
\* hold the answer to the API request of the last call and what
\* _make_request returned for it; logs holds the lines the last call logged;
\* born holds the records MockAdapter.create_user returned for the users
\* that no update_user or delete_user has touched since; held tells that
\* the connect() of the adapter the service holds now succeeded and that no
\* disconnect() has been awaited on it since; refresh holds what the
\* _authenticate run by the expiry check of the last call returned.

NoHistory == [live |-> FALSE, prev |-> "none", cur |-> "none", issued |-> {},
              answer |-> NoAnswer, made |-> NoMade, logs |-> <<>>, born |-> {},
              held |-> FALSE, refresh |-> NoResult]

\* what the _authenticate of the expiry check returned, when the call of
\* method reaches the check and finds the token expired
Refreshed(a, method, t, tokResp) ==
    IF a.kind = "netsapiens" /\ a.client # 0 /\ TokenExpired(a, t)
       /\ method \in Overrides(a.kind)
    THEN Brief(Authenticate(a, tokResp, t).result)
    ELSE NoResult

\* the records of born after one more call of a MockAdapter
Born(born, method, id, result) ==
    IF ~result.success THEN born
    ELSE IF method = "create_user" THEN born \cup {result.data}
    ELSE IF method \in {"update_user", "delete_user"} THEN {r \in born : r.id # id}
    ELSE born

\* only a disconnect() is told apart from the other calls
Called(h, op) ==
    [h EXCEPT !.prev = h.cur, !.cur = IF op = "disconnect" THEN op ELSE "none"]

\* the access token of a token answer the adapter reads one from
IssuedBy(resp) ==
    IF resp.type = "http" /\ resp.status = 200 /\ IsDict(resp.body)
       /\ resp.access_token # NoneStr
    THEN {resp.access_token} ELSE {}

Init ==
    /\ now = 0
    /\ db_conn \in {Connection(TRUE, "pending", NoMsg, pt) : pt \in ProviderTypes}
    /\ db_cred = Credential(TRUE, TRUE, StoredCredentials)
    /\ svc = NewService
    /\ adapter = NoAdapter
    /\ clients = <<>>
    /\ audit = 0
    /\ last = NoOutcome
    /\ hist = NoHistory
    /\ tasks = <<>>
    /\ ids = NoIds

\* no call has just returned: the caller, the vendor and the provisioning
\* flow act between calls
Idle == last.op = "none"

\* the caller takes the outcome of the call it awaited
Return ==
    /\ ~Idle
    /\ last' = NoOutcome
    /\ hist' = [hist EXCEPT !.logs = <<>>, !.refresh = NoResult]
    /\ UNCHANGED <<ids, now, db_conn, db_cred, svc, adapter, clients, audit, tasks>>

\* time passes
Tick ==
    /\ Idle
    /\ now < MaxTime
    /\ now' = now + 1
    /\ UNCHANGED <<ids, db_conn, db_cred, svc, adapter, clients, audit, last, hist, tasks>>

\* the caller awaits service.connect()
Connect ==
    /\ Idle
    /\ Len(clients) < MaxClients
    /\ \E tokResp \in SvcTokenResponses :
       \E c \in {ServiceConnect(svc, adapter, db_conn, db_cred, tokResp, now, clients)} :
              /\ svc' = c.svc
              /\ adapter' = c.adapter
              /\ db_conn' = c.db_conn
              /\ clients' = c.clients
              /\ last' = c.outcome
              /\ hist' = [Called(hist, "connect") EXCEPT
                            !.live = IF c.outcome.code = NoneStr
                                        /\ c.outcome.raised = NoneStr
                                     THEN TRUE ELSE @,
                            !.issued = IF c.outcome.reqs # <<>>
                                       THEN @ \cup IssuedBy(tokResp) ELSE @,
                            !.logs = ServiceConnectLog(db_conn, db_cred, tokResp, now),
                            !.held = IF c.outcome.created = 0 THEN @
                                     ELSE c.outcome.code = NoneStr
                                          /\ c.outcome.raised = NoneStr]
    /\ UNCHANGED <<ids, now, db_cred, audit, tasks>>

\* the caller awaits service.disconnect()
Disconnect ==
    /\ Idle
    /\ \E d \in {ServiceDisconnect(svc, adapter, clients)} :
           /\ svc' = d.svc
           /\ adapter' = d.adapter
           /\ clients' = d.clients
           /\ last' = d.outcome
    /\ hist' = [Called(hist, "disconnect") EXCEPT
                  !.live = FALSE, !.logs = AdapterDisconnectLog(adapter),
                  !.held = FALSE]
    /\ UNCHANGED <<ids, now, db_conn, db_cred, audit, tasks>>

\* the caller awaits one resource operation; audit_ok tells whether
\* AuditLog.objects.create succeeds (its failure is caught in _create_log)
Operation ==
    /\ Idle
    /\ audit < MaxAudit
    /\ \E op \in ServiceOperations :
       \E args \in OpArgs(op) :
       \E tokResp \in TokenAnswers(svc, adapter, now), apiResp \in ApiAnswers(svc, adapter) :
       \E o \in {ServiceOperation(svc, adapter, op, args, now, tokResp, apiResp)} :
              /\ o.adapter.next_user_id <= 9 + MaxCreated
              /\ o.adapter.next_device_id <= 8 + MaxCreated
              /\ adapter' = o.adapter
              /\ \E audit_ok \in (IF o.outcome.logged = <<>> THEN {TRUE} ELSE BOOLEAN) :
                    /\ last' = AfterLogAction(o.outcome, audit_ok)
                    /\ audit' = IF audit_ok THEN audit + Len(o.outcome.logged)
                                ELSE audit
                    /\ hist' = [Called(hist, "operation") EXCEPT
                                  !.issued = IF \E i \in 1..Len(o.outcome.reqs) :
                                                   o.outcome.reqs[i].kind = "token"
                                             THEN @ \cup IssuedBy(tokResp) ELSE @,
                                  !.logs = ServiceOperationLog(svc, adapter, op, now,
                                                               tokResp, apiResp,
                                                               audit_ok),
                                  !.refresh = IF EnsureConnected(svc)
                                              THEN Refreshed(adapter, op, now, tokResp)
                                              ELSE NoResult]
    /\ UNCHANGED <<ids, now, db_conn, db_cred, svc, clients, tasks>>

\* the external provisioning flow activates or deactivates the connection
EnvSetStatus ==
    /\ Idle
    /\ db_conn.exists
    /\ \E st \in {"active", "inactive"} : db_conn' = [db_conn EXCEPT !.status = st]
    /\ UNCHANGED <<ids, now, db_cred, svc, adapter, clients, audit, last, hist, tasks>>

\* the connection row is deleted, and its credential with it (CASCADE)
EnvDeleteConnection ==
    /\ Idle
    /\ db_conn.exists
    /\ db_conn' = [db_conn EXCEPT !.exists = FALSE]
    /\ db_cred' = [db_cred EXCEPT !.exists = FALSE]
    /\ UNCHANGED <<ids, now, svc, adapter, clients, audit, last, hist, tasks>>

\* the stored credential is removed, or replaced by data that does not decrypt
EnvSetCredential ==
    /\ Idle
    /\ db_conn.exists
    /\ \E c \in {Credential(FALSE, FALSE, db_cred.data), Credential(TRUE, FALSE, db_cred.data)} :
          db_cred' = c
    /\ UNCHANGED <<ids, now, db_conn, svc, adapter, clients, audit, last, hist, tasks>>

Next ==
    \/ Return
    \/ Tick
    \/ Connect
    \/ Disconnect
    \/ Operation
    \/ EnvSetStatus
    \/ EnvDeleteConnection
    \/ EnvSetCredential

Spec == Init /\ [][Next]_vars

----------------------------------------------------------------------------
\* The adapter-level specification: one NetSapiensAdapter whose operations
\* are coroutines on one event loop. A coroutine runs without interruption
\* from one await to the next; _make_request awaits the token answer (inside
\* _authenticate) and the API answer, so an operation has three steps.

\* the two operations that run concurrently
TaskIds == {"opA", "opB"}

\* the operations the coroutines run: one for each use of the payload
TaskMethods == {"list_users", "get_user", "hold_call"}

\* A coroutine: where it is, the operation, what it has sent and received in
\* order, its result, the instant and the cached expiry of its expiry check,
\* the bearer token of its API request, and whether no other operation was
\* in flight while it ran.
Task(pc, method, log, result, at, expiry, bearer, alone) ==
    [pc |-> pc, method |-> method, log |-> log, result |-> result, at |-> at,
     expiry |-> expiry, bearer |-> bearer, alone |-> alone]

IdleTask == Task("idle", "none", <<>>, NoResult, 0, NoneInt, NoneStr, TRUE)

InFlight(tk) == tk.pc \in {"auth_wait", "api_wait"}

\* the token answers of the adapter-level specification
NSTokenResponses ==
    {TokenResponse("timeout", 0, BodyEmpty, NoneStr, NoneInt, FALSE, NoneStr),
     TokenResponse("http", 401, BodyObject, NoneStr, NoneInt, FALSE, NoneStr),
     TokenResponse("http", 200, BodyObject, "tokA", 1, FALSE, NoneStr),
     TokenResponse("http", 200, BodyObject, "tokB", 1, FALSE, NoneStr),
     TokenResponse("http", 200, BodyObject, NoneStr, 1, FALSE, NoneStr),
     TokenResponse("http", 200, BodyObject, "tokB", NoneInt, FALSE, NoneStr)}

\* the API answers of the adapter-level specification
NSApiResponses ==
    {ApiResponse("timeout", 0, BodyEmpty),
     ApiResponse("http", 404, BodyObject),
     ApiResponse("http", 200, BodyEmpty),
     ApiResponse("http", 200, BodyObject),
     ApiResponse("http", 200, BodyBadObject),
     ApiResponse("http", 200, BodyNonObject)}

\* the credential maps the adapter is constructed with
NSCredentials ==
    {StoredCredentials,
     Credentials("password", "cid", "sec", "usr", NoneStr)}

InitNS ==
    /\ now = 0
    /\ db_conn = Connection(TRUE, "active", NoMsg, "NetSapiens")
    /\ db_cred = Credential(TRUE, TRUE, StoredCredentials)
    /\ svc = NewService
    /\ adapter \in {NetSapiensAdapter(c, ConfigDomain) : c \in NSCredentials}
    /\ clients = <<>>
    /\ audit = 0
    /\ last = NoOutcome
    /\ hist = NoHistory
    /\ tasks = [i \in TaskIds |-> IdleTask]
    /\ ids = NoIds

NSTick ==
    /\ now < MaxTime
    /\ now' = now + 1
    /\ UNCHANGED <<ids, db_conn, db_cred, svc, adapter, clients, audit, last, hist, tasks>>

\* adapter.connect(), awaited while no operation is in flight
NSConnectCall ==
    /\ \A i \in TaskIds : tasks[i].pc = "idle"
    /\ Len(clients) < MaxClients
    /\ \E tokResp \in NSTokenResponses :
       \E c \in {NSConnect(adapter, tokResp, now, Len(clients))} :
              /\ adapter' = c.adapter
              /\ clients' = Append(clients, 0)
              /\ hist' = [Called(hist, "connect") EXCEPT
                            !.issued = IF c.reqs # <<>> THEN @ \cup IssuedBy(tokResp)
                                       ELSE @]
    /\ UNCHANGED <<ids, now, db_conn, db_cred, svc, audit, last, tasks>>

\* The coroutine of an operation called now, at its first await or at its
\* return; alone tells that no other operation is in flight.
Started(method, alone) ==
    IF adapter.client = 0
    THEN Task("done", method, <<>>,
              Brief(Fail("NOT_CONNECTED", MsgAdapterNotConnected)),
              now, adapter.token_expires, NoneStr, alone)
    ELSE IF TokenExpired(adapter, now)
    THEN IF ~AuthValidate(adapter).success
         THEN Task("done", method, <<>>, Brief(AuthValidate(adapter)),
                   now, adapter.token_expires, NoneStr, alone)
         ELSE Task("auth_wait", method, <<"token_sent">>, NoResult,
                   now, adapter.token_expires, NoneStr, alone)
    ELSE Task("api_wait", method, <<"api_sent">>, NoResult,
              now, adapter.token_expires, ApiRequest(adapter).bearer, alone)

\* An operation is called: _make_request runs up to its first await. It
\* returns at once without a client or when the grant validation of
\* _authenticate fails; it sends the token request when the expiry check
\* finds the token expired, and the API request otherwise.
TaskStart(i) ==
    /\ tasks[i].pc = "idle"
    /\ \E method \in TaskMethods :
       \E mine \in {Started(method, \A j \in TaskIds : j = i \/ ~InFlight(tasks[j]))} :
          tasks' = [j \in TaskIds |->
                      IF j = i THEN mine
                      ELSE IF InFlight(tasks[j]) /\ InFlight(mine)
                      THEN [tasks[j] EXCEPT !.alone = FALSE]
                      ELSE tasks[j]]
    /\ UNCHANGED <<ids, now, db_conn, db_cred, svc, adapter, clients, audit, last, hist>>

\* The token answer arrives: _authenticate finishes, and on success
\* _make_request builds its headers and sends the API request.
TaskTokenResponse(i) ==
    /\ tasks[i].pc = "auth_wait"
    /\ \E resp \in NSTokenResponses :
       \E h \in {AuthHandleResponse(adapter, resp, now)} :
              /\ adapter' = h.adapter
              /\ hist' = [hist EXCEPT !.issued = @ \cup IssuedBy(resp)]
              /\ tasks' = [tasks EXCEPT ![i] =
                    IF h.result.success
                    THEN [@ EXCEPT !.pc = "api_wait",
                                   !.log = @ \o <<"token_ok", "api_sent">>,
                                   !.bearer = ApiRequest(h.adapter).bearer]
                    ELSE [@ EXCEPT !.pc = "done",
                                   !.log = Append(@, "token_failed"),
                                   !.result = Brief(h.result)]]
    /\ UNCHANGED <<ids, now, db_conn, db_cred, svc, clients, audit, last>>

\* The API answer arrives: _make_request returns and the operation maps the
\* payload.
TaskApiResponse(i) ==
    /\ tasks[i].pc = "api_wait"
    /\ \E resp \in NSApiResponses :
       \E r \in {ApiHandleResponse(resp)} :
          tasks' = [tasks EXCEPT ![i] =
                      [@ EXCEPT !.pc = "done",
                                !.result = Brief(IF r.success
                                                 THEN NSTranslate(tasks[i].method, r.data,
                                                                  IdArgs(""))
                                                 ELSE r)]]
    /\ UNCHANGED <<ids, now, db_conn, db_cred, svc, adapter, clients, audit, last, hist>>

\* the caller takes the result
TaskReturn(i) ==
    /\ tasks[i].pc = "done"
    /\ tasks' = [tasks EXCEPT ![i] = IdleTask]
    /\ UNCHANGED <<ids, now, db_conn, db_cred, svc, adapter, clients, audit, last, hist>>

NextNS ==
    \/ NSTick
    \/ NSConnectCall
    \/ \E i \in TaskIds : TaskStart(i)
    \/ \E i \in TaskIds : TaskTokenResponse(i)
    \/ \E i \in TaskIds : TaskApiResponse(i)
    \/ \E i \in TaskIds : TaskReturn(i)

SpecNS == InitNS /\ [][NextNS]_vars

----------------------------------------------------------------------------
\* The call-level specification: one adapter obtained from the registry, with
\* any credential map, called one method at a time; the vendor may give any
\* answer to each request.

\* what the caller of an adapter method observes
AdapterOutcome(op, id, r, reqs) ==
    Outcome(op, id, r.code, r.message, r.raised, r.data, <<op>>, Brief(r), 0, reqs,
            <<>>, FALSE)

\* the credential maps the adapters are constructed with: for each grant,
\* every combination of present and missing required fields
AdCredentials ==
    {Credentials(g, i, s, NoneStr, NoneStr) :
        g \in {NoneStr, "client_credentials"}, i \in {NoneStr, "cid"}, s \in {"", "sec"}}
    \cup {Credentials("password", i, s, u, p) :
            i \in {NoneStr, "cid"}, s \in {"", "sec"},
            u \in {NoneStr, "usr"}, p \in {NoneStr, "pwd"}}
    \cup {Credentials("implicit", "cid", "sec", NoneStr, NoneStr)}

\* the adapters the registry can return, configured with or without retries
AdaptersUnderTest ==
    {[GetAdapter(pt, c, ConfigDomain) EXCEPT !.max_retries = r] :
        pt \in RegisteredTypes, c \in AdCredentials, r \in {0, DefaultMaxRetries}}

\* the token answers of the call-level specification: one of each kind
AdTokenResponses ==
    {TokenResponse("timeout", 0, BodyEmpty, NoneStr, NoneInt, FALSE, NoneStr),
     TokenResponse("error", 0, BodyEmpty, NoneStr, NoneInt, FALSE, NoneStr),
     TokenResponse("http", 401, BodyEmpty, NoneStr, NoneInt, FALSE, NoneStr),
     TokenResponse("http", 401, BodyObject, NoneStr, NoneInt, FALSE, NoneStr),
     TokenResponse("http", 200, BodyBlank, NoneStr, NoneInt, FALSE, NoneStr),
     TokenResponse("http", 200, BodyNotJson, NoneStr, NoneInt, FALSE, NoneStr),
     TokenResponse("http", 200, BodyNonObject, NoneStr, NoneInt, FALSE, NoneStr),
     TokenResponse("http", 200, BodyObject, "tokA", 1, FALSE, NoneStr),
     TokenResponse("http", 200, BodyObject, "tokA", NoneInt, FALSE, NoneStr),
     TokenResponse("http", 200, BodyObject, "tokB", 0, FALSE, "Peerlogic"),
     TokenResponse("http", 200, BodyObject, NoneStr, 1, FALSE, NoneStr),
     TokenResponse("http", 200, BodyObject, "tokB", NoneInt, TRUE, NoneStr)}

InitAd ==
    /\ now = 0
    /\ db_conn = Connection(TRUE, "active", NoMsg, "NetSapiens")
    /\ db_cred = Credential(TRUE, TRUE, StoredCredentials)
    /\ svc = NewService
    /\ adapter \in AdaptersUnderTest
    /\ clients = <<>>
    /\ audit = 0
    /\ last = NoOutcome
    /\ hist = NoHistory
    /\ tasks = <<>>
    /\ ids = NoIds

\* the caller takes the result of the call it awaited
AdReturn ==
    /\ ~Idle
    /\ last' = NoOutcome
    /\ hist' = [NoHistory EXCEPT !.born = hist.born]
    /\ UNCHANGED <<ids, now, db_conn, db_cred, svc, adapter, clients, audit, tasks>>

AdTick ==
    /\ Idle
    /\ now < MaxTime
    /\ now' = now + 1
    /\ UNCHANGED <<ids, db_conn, db_cred, svc, adapter, clients, audit, last, hist, tasks>>

\* the token answers the vendor may give to the request a call sends
AdTokenAnswers(sends) ==
    IF sends THEN AdTokenResponses
    ELSE {TokenResponse("timeout", 0, BodyEmpty, NoneStr, NoneInt, FALSE, NoneStr)}

\* the caller awaits adapter.connect()
AdConnect ==
    /\ Idle
    /\ Len(clients) < MaxClients
    /\ \E tokResp \in AdTokenAnswers(adapter.kind = "netsapiens"
                                      /\ AuthValidate(adapter).success) :
       \E c \in {AdapterConnect(adapter, tokResp, now, Len(clients))} :
          /\ adapter' = c.adapter
          /\ clients' = Opened(clients, c)
          /\ last' = AdapterOutcome("connect", "", c.result, c.reqs)
    /\ UNCHANGED <<ids, now, db_conn, db_cred, svc, audit, hist, tasks>>

\* the caller awaits adapter.disconnect()
AdDisconnect ==
    /\ Idle
    /\ \E d \in {AdapterDisconnect(adapter, clients)} :
          /\ adapter' = d.adapter
          /\ clients' = d.clients
          /\ last' = AdapterOutcome("disconnect", "",
                                    IF d.raised = NoneStr THEN Ok("None")
                                    ELSE Raise(d.raised), <<>>)
    /\ UNCHANGED <<ids, now, db_conn, db_cred, svc, audit, hist, tasks>>

\* what the call made of the vendor's answer: the answer to the API request
\* it sent and the result _make_request returned for it
Observed(a, o, apiResp) ==
    IF a.kind = "netsapiens" /\ o.reqs # <<>> /\ o.reqs[Len(o.reqs)].kind = "api"
    THEN [NoHistory EXCEPT !.answer = apiResp, !.made = o.made]
    ELSE NoHistory

\* the arguments of the calls on an adapter: those of the service-level
\* calls and, on a MockAdapter, the id its first create_user returns
AdArgs(a, method) ==
    IF a.kind = "mock" /\ method \in {"get_user", "delete_user"}
    THEN OpArgs(method) \cup {IdArgs("user-009")}
    ELSE OpArgs(method)

\* the caller awaits one operation of the adapter
AdOperation ==
    /\ Idle
    /\ \E method \in AdapterMethods :
       \E args \in AdArgs(adapter, method) :
       \E tokResp \in AdTokenAnswers(adapter.kind = "netsapiens" /\ adapter.client # 0
                                      /\ method \in Overrides(adapter.kind)
                                      /\ TokenExpired(adapter, now)) :
       \E refresh \in {Refreshed(adapter, method, now, tokResp)} :
       \E apiResp \in (IF adapter.kind = "netsapiens" /\ adapter.client # 0
                           /\ method \in Overrides(adapter.kind)
                        THEN ApiResponses ELSE {ApiResponse("timeout", 0, BodyEmpty)}) :
       \E o \in {AdapterOperation(adapter, method, args, now, tokResp, apiResp)} :
          /\ o.adapter.next_user_id <= 9 + MaxCreated
          /\ o.adapter.next_device_id <= 8 + MaxCreated
          /\ adapter' = o.adapter
          /\ last' = AdapterOutcome(method, args.id, o.result, o.reqs)
          /\ hist' = [Observed(adapter, o, apiResp) EXCEPT
                         !.born = IF adapter.kind = "mock"
                                  THEN Born(hist.born, method, args.id, o.result)
                                  ELSE hist.born,
                         !.refresh = refresh]
    /\ UNCHANGED <<ids, now, db_conn, db_cred, svc, clients, audit, tasks>>

NextAd ==
    \/ AdReturn
    \/ AdTick
    \/ AdConnect
    \/ AdDisconnect
    \/ AdOperation

SpecAd == InitAd /\ [][NextAd]_vars

----------------------------------------------------------------------------
\* Properties of the service-level specification (Spec)

\* the call that has just returned is a resource operation
OperationReturned == last.op \in ServiceOperations

\* the adapter method the call invoked returned a failed AdapterResult
AdapterFailed ==
    last.calls # <<>> /\ last.returned.raised = NoneStr /\ ~last.returned.success

\* the adapter method the call invoked returned a successful AdapterResult
AdapterSucceeded ==
    last.calls # <<>> /\ last.returned.raised = NoneStr /\ last.returned.success

\* C1: a resource operation called while no connect() has succeeded, or after
\* a disconnect() that followed the last successful connect(), raises the
\* service error NOT_CONNECTED, invokes no adapter method, sends no vendor
\* request and hands no entry to the audit log.
C1_NotConnectedRejected ==
    (OperationReturned /\ ~hist.live) =>
        /\ last.code = "NOT_CONNECTED"
        /\ last.message = MsgNotConnected
        /\ last.raised = NoneStr
        /\ last.calls = <<>>
        /\ last.reqs = <<>>
        /\ last.logged = <<>>

\* an operation was rejected after a connect() that succeeded and a
\* disconnect() that followed it
C1_Witness ==
    /\ OperationReturned
    /\ ~hist.live
    /\ hist.prev = "disconnect"
    /\ adapter.kind = "netsapiens"
    /\ adapter.access_token = "tokA"
    /\ last.code = "NOT_CONNECTED"

\* C2: every resource operation that passes the connected check and gets an
\* AdapterResult from the adapter writes exactly one audit entry before it
\* returns or raises: result success when the adapter succeeded, result
\* failure with the adapter's error message when it failed.
C2_OneAuditEntry ==
    (OperationReturned /\ (AdapterSucceeded \/ AdapterFailed)) =>
        /\ Len(last.logged) = 1
        /\ AdapterSucceeded => last.logged[1].result = "success"
        /\ AdapterFailed =>
              /\ last.logged[1].result = "failure"
              /\ last.logged[1].error_message = last.returned.message

\* C3: when the adapter's connect() returns a failed result, the connection
\* row is saved with status error and last_error equal to the failure
\* message, the service error raised carries the adapter's code and message,
\* and the instance is left not connected.
C3_FailedConnect ==
    (last.op = "connect" /\ AdapterFailed) =>
        /\ last.saved
        /\ db_conn.status = "error"
        /\ db_conn.last_error = last.returned.message
        /\ last.code = last.returned.code
        /\ last.message = last.returned.message
        /\ ~svc._connected

\* the four outcomes of the checks that precede the adapter
PrecheckCodes ==
    {"CONNECTION_NOT_FOUND", "CONNECTION_INACTIVE", "NO_CREDENTIALS", "CREDENTIAL_ERROR"}

\* C4: connect() tests, in this order, that the connection row exists, that
\* its status is not inactive, that the credential row exists and that the
\* credential decrypts; it raises the code of the first test that fails, and
\* in each of these four outcomes it instantiates no adapter, invokes no
\* adapter method and sends no vendor request.
C4_PrecheckOrder ==
    last.op = "connect" =>
        /\ ~db_conn.exists => last.code = "CONNECTION_NOT_FOUND"
        /\ (db_conn.exists /\ db_conn.status = "inactive") =>
              last.code = "CONNECTION_INACTIVE"
        /\ (db_conn.exists /\ db_conn.status # "inactive" /\ ~db_cred.exists) =>
              last.code = "NO_CREDENTIALS"
        /\ (db_conn.exists /\ db_conn.status # "inactive" /\ db_cred.exists
            /\ ~db_cred.decryptable) =>
              last.code = "CREDENTIAL_ERROR"
        /\ last.code \in PrecheckCodes =>
              /\ last.created = 0
              /\ last.calls = <<>>
              /\ last.reqs = <<>>
              /\ ~last.saved

\* connect() stopped at the status test although the credential was
\* unusable as well
C4_Witness ==
    /\ last.op = "connect"
    /\ last.code = "CONNECTION_INACTIVE"
    /\ db_cred.exists
    /\ ~db_cred.decryptable

\* C5: disconnect() raises nothing in any state of the instance; before any
\* adapter exists it invokes no adapter method; no client is closed more
\* than once, so a second disconnect() in a row closes nothing.
C5_DisconnectSafe ==
    /\ \A i \in DOMAIN clients : clients[i] <= 1
    /\ last.op = "disconnect" =>
          /\ last.code = NoneStr
          /\ last.raised = NoneStr
          /\ ~svc._connected
          /\ adapter.kind = "none" => last.calls = <<>>

\* the second of two disconnect() calls in a row returned, the first having
\* closed the client of a vendor adapter
C5_Witness ==
    /\ last.op = "disconnect"
    /\ hist.prev = "disconnect"
    /\ adapter.kind = "netsapiens"
    /\ clients # <<>>
    /\ clients[Len(clients)] = 1

\* C6: once disconnect() has returned, every HTTP client opened by an
\* adapter this instance created is closed.
C6_AllClientsClosed ==
    last.op = "disconnect" => \A i \in DOMAIN clients : clients[i] >= 1

\* C9: when the adapter method returns a failed result, the operation raises
\* a service error with the code and the message of that result, unchanged.
C9_ErrorUnchanged ==
    (OperationReturned /\ AdapterFailed) =>
        /\ last.raised = NoneStr
        /\ last.code = last.returned.code
        /\ last.message = last.returned.message

\* an operation raised the HTTP error of the vendor
C9_Witness ==
    /\ OperationReturned
    /\ AdapterFailed
    /\ last.code = "HTTP_404"
    /\ last.message = <<"API request failed: ", "404">>

----------------------------------------------------------------------------
\* Properties of the adapter-level specification (SpecNS)

\* the operation made its expiry check at or after the cached expiry
CheckedExpired(tk) == tk.expiry # NoneInt /\ tk.at >= tk.expiry

\* the operation was called on a connected adapter
VendorCall(tk) == tk.pc # "idle" /\ tk.result.code # "NOT_CONNECTED"

\* C7: an operation that runs with no other operation in flight and makes
\* its expiry check at or after the cached expiry sends exactly one token
\* request and sends its API request only after the answer to it; one that
\* makes its check before the expiry, or with no expiry cached, sends no
\* token request.
C7_LazyRefresh ==
    \A i \in DOMAIN tasks :
        (VendorCall(tasks[i]) /\ tasks[i].alone) =>
            IF CheckedExpired(tasks[i])
            THEN tasks[i].log \in {<<"token_sent">>,
                                   <<"token_sent", "token_failed">>,
                                   <<"token_sent", "token_ok", "api_sent">>}
            ELSE tasks[i].log = <<"api_sent">>

\* an operation that ran alone refreshed the expired token and got its answer
C7_Witness ==
    \E i \in DOMAIN tasks :
        /\ tasks[i].pc = "done"
        /\ tasks[i].alone
        /\ CheckedExpired(tasks[i])
        /\ tasks[i].log = <<"token_sent", "token_ok", "api_sent">>
        /\ tasks[i].result.success

\* the operation overlapped another one and found the token expired
Raced(tk) == tk.pc # "idle" /\ ~tk.alone /\ CheckedExpired(tk)

\* C8: when two concurrent operations both find the token expired, each
\* sends its API request only after a successful answer to its own token
\* request, and with a token that one of the token answers returned.
C8_RedundantRefreshHarmless ==
    \A i \in DOMAIN tasks : \A j \in DOMAIN tasks :
        (i # j /\ Raced(tasks[i]) /\ Raced(tasks[j])
         /\ tasks[i].pc \in {"api_wait", "done"}
         /\ tasks[i].log # <<"token_sent", "token_failed">>) =>
            /\ tasks[i].log = <<"token_sent", "token_ok", "api_sent">>
            /\ tasks[i].bearer \in hist.issued

\* C10: every operation of the adapter returns an AdapterResult; none lets
\* an exception out.
C10_NeverRaises ==
    \A i \in DOMAIN tasks : tasks[i].pc = "done" => tasks[i].result.raised = NoneStr

----------------------------------------------------------------------------
\* Properties of the call-level specification (SpecAd)

\* the grant the credential map selects
SelectedGrant(a) ==
    IF a.creds.grant_type = NoneStr THEN "client_credentials" ELSE a.creds.grant_type

\* the fields the selected grant requires
RequiredFields(a) ==
    IF SelectedGrant(a) = "password"
    THEN {"client_id", "client_secret", "username", "password"}
    ELSE {"client_id", "client_secret"}

\* the required fields that are absent or empty in the credential map
MissingFields(a) ==
    {f \in RequiredFields(a) :
        CASE f = "client_id" -> a.creds.client_id \in {NoneStr, ""}
          [] f = "client_secret" -> a.creds.client_secret \in {NoneStr, ""}
          [] f = "username" -> a.creds.username \in {NoneStr, ""}
          [] OTHER -> a.creds.password \in {NoneStr, ""}}

\* the credential fields a message names
NamedFields(msg) ==
    {msg[i] : i \in DOMAIN msg} \cap {"client_id", "client_secret", "username", "password"}

\* C11: when connect() runs _authenticate on a credential map that lacks a
\* field its grant requires, the result is a failure coded AUTH_ERROR whose
\* message names exactly the missing fields, and no token request is sent.
C11_NamesMissingFields ==
    (last.op = "connect" /\ adapter.kind = "netsapiens"
     /\ SelectedGrant(adapter) \in {"client_credentials", "password"}
     /\ MissingFields(adapter) # {}) =>
        /\ last.returned.raised = NoneStr
        /\ ~last.returned.success
        /\ last.code = "AUTH_ERROR"
        /\ last.reqs = <<>>
        /\ NamedFields(last.message) = MissingFields(adapter)

\* C12: every call on the vendor adapter sends at most two requests, a token
\* request first and an API request second when both are sent; a call that
\* failed in authentication sent no API request, and a call that timed out
\* sent its API request once, whatever max_retries is.
C12_AtMostTwoRequests ==
    (adapter.kind = "netsapiens" /\ last.op # "none") =>
        /\ Len(last.reqs) <= 2
        /\ Len(last.reqs) = 2 =>
              last.reqs[1].kind = "token" /\ last.reqs[2].kind = "api"
        /\ last.code \in {"AUTH_TIMEOUT", "AUTH_ERROR"} =>
              \A i \in DOMAIN last.reqs : last.reqs[i].kind = "token"
        /\ last.code = "TIMEOUT" =>
              last.reqs[Len(last.reqs)].kind = "api"

\* an operation of an adapter configured with retries refreshed the token
\* and timed out on its API request
C12_Witness ==
    /\ adapter.kind = "netsapiens"
    /\ adapter.max_retries = DefaultMaxRetries
    /\ last.op \in ServiceOperations
    /\ last.code = "TIMEOUT"
    /\ Len(last.reqs) = 2

\* C13: _make_request maps the vendor's answer to one result: a status of
\* 400 or more to a failure HTTP_<status> whose details carry the body, a
\* timeout to TIMEOUT, a blank body under 400 to success with an empty
\* payload, a body that is not JSON under 400 to PARSE_ERROR with a preview
\* of at most the first 500 characters, and a JSON body to success with it.
C13_OneResultPerAnswer ==
    hist.answer # NoAnswer =>
        /\ hist.answer.type = "timeout" =>
              ~hist.made.success /\ hist.made.code = "TIMEOUT"
        /\ (hist.answer.type = "http" /\ hist.answer.status >= 400) =>
              /\ ~hist.made.success
              /\ hist.made.code = "HTTP_" \o StatusStr(hist.answer.status)
              /\ hist.made.details.response = hist.answer.body
        /\ (hist.answer.type = "http" /\ hist.answer.status < 400
            /\ hist.answer.body \in {BodyEmpty, BodyBlank}) =>
              hist.made.success /\ hist.made.data = "{}"
        /\ (hist.answer.type = "http" /\ hist.answer.status < 400
            /\ hist.answer.body \in {BodyNotJson, BodyLongNotJson}) =>
              /\ ~hist.made.success
              /\ hist.made.code = "PARSE_ERROR"
              /\ hist.made.details.response_preview.text = hist.answer.body
              /\ hist.made.details.response_preview.len <= PreviewLimit
              /\ hist.made.details.response_preview.len <= TextLen(hist.answer.body)
        /\ (hist.answer.type = "http" /\ hist.answer.status < 400
            /\ hist.answer.body \in {BodyObject, BodyBadObject, BodyNonObject,
                                     BodyList, BodyListTotal}) =>
              hist.made.success /\ hist.made.data = hist.answer.body

\* a body that is not JSON and longer than the limit was answered with a
\* status under 400, and the preview was cut at the limit
C13_Witness ==
    /\ hist.answer.type = "http"
    /\ hist.answer.status < 400
    /\ hist.answer.body = BodyLongNotJson
    /\ hist.made.code = "PARSE_ERROR"
    /\ hist.made.details.response_preview.len = PreviewLimit

\* the id a get_user or get_device call was given does not exist: the mock
\* holds no record of it, the vendor answered the request with 404
MissingResource ==
    IF adapter.kind = "mock"
    THEN \/ last.op = "get_user" /\ ~HasId(adapter.users, last.id)
         \/ last.op = "get_device" /\ ~HasId(adapter.devices, last.id)
    ELSE /\ last.op \in {"get_user", "get_device"}
         /\ hist.answer.type = "http"
         /\ hist.answer.status = 404

\* C14: get_user and get_device on an id that does not exist return a failed
\* result coded NOT_FOUND, from the mock adapter and the vendor adapter alike.
C14_MissingIsNotFound ==
    (last.op \in {"get_user", "get_device"} /\ MissingResource) =>
        /\ last.returned.raised = NoneStr
        /\ ~last.returned.success
        /\ last.code = "NOT_FOUND"

ListOperations == {"list_users", "list_devices", "get_active_calls"}

\* C15: every successful list result has has_more = (page * page_size < total)
\* and holds at most page_size items.
C15_PageShape ==
    (last.op \in ListOperations /\ last.returned.raised = NoneStr
     /\ last.returned.success) =>
        /\ last.data.has_more = (last.data.page * last.data.page_size < last.data.total)
        /\ Len(last.data.items) <= last.data.page_size

\* an optional operation the adapter's class does not define is awaited:
\* every optional operation on the mock adapter, and the ones outside call
\* control on the vendor adapter
DefaultBodyCalled ==
    /\ last.op = "none"
    /\ last'.op \in OptionalMethods
    /\ adapter.kind = "mock" \/ last'.op \notin CallControlMethods

\* C17: an optional operation that the adapter's class does not override
\* returns a failed result coded NOT_SUPPORTED whose message holds the
\* adapter's PROVIDER_NAME, sends no request and leaves the adapter and its
\* clients as they were.
C17_DefaultNotSupported ==
    [][DefaultBodyCalled =>
          /\ last'.returned.raised = NoneStr
          /\ ~last'.returned.success
          /\ last'.code = "NOT_SUPPORTED"
          /\ \E i \in DOMAIN last'.message : last'.message[i] = adapter.provider_name
          /\ last'.reqs = <<>>
          /\ adapter' = adapter
          /\ clients' = clients]_vars

\* a connected vendor adapter was asked for its voicemails
C17_Witness ==
    /\ adapter.kind = "netsapiens"
    /\ adapter.client # 0
    /\ last.op = "list_voicemails"
    /\ last.code = "NOT_SUPPORTED"
    /\ last.reqs = <<>>

----------------------------------------------------------------------------
\* Further properties of the service-level specification (Spec)

\* connect() reached the registry with a provider type that is not registered
UnregisteredConnect ==
    /\ last.op = "connect"
    /\ ConnectPrecheck(db_conn, db_cred) = "ok"
    /\ Lower(db_conn.provider_type) \notin RegisteredTypes

\* C16: connect() on a provider type that is not registered fails with an
\* error coded UNSUPPORTED_PROVIDER whose message lists every registered
\* type, and no adapter is instantiated.
C16_UnsupportedProvider ==
    UnregisteredConnect =>
        /\ last.code = "UNSUPPORTED_PROVIDER"
        /\ \A pt \in RegisteredTypes :
              \E i \in DOMAIN last.message : last.message[i] = pt
        /\ last.created = 0

\* a call of VoIPService runs: connect(), disconnect() or an operation
ServiceCall == last.op = "none" /\ last'.op # "none"

\* C18: no call of VoIPService writes a status other than error to the
\* connection row, and a connect() that succeeds leaves the row as it was.
C18_NeverActivates ==
    [][ServiceCall =>
          /\ db_conn'.status # db_conn.status => db_conn'.status = "error"
          /\ (last'.op = "connect" /\ last'.code = NoneStr
              /\ last'.raised = NoneStr) => db_conn' = db_conn]_vars

\* connect() succeeded on a connection whose status a failed connect() had
\* set to error, and the status is still error
C18_Witness ==
    /\ last.op = "connect"
    /\ last.code = NoneStr
    /\ last.raised = NoneStr
    /\ svc._connected
    /\ db_conn.status = "error"

\* the values to keep out of logs and audit entries: the client secret and
\* the password of the stored credential map and of the map the adapter was
\* built with, and every access token the vendor has issued
SecretValues ==
    ({db_cred.data.client_secret, db_cred.data.password, adapter.creds.client_secret,
      adapter.creds.password, adapter.access_token} \cup hist.issued)
    \ {NoneStr, ""}

AuditWriteFailed ==
    /\ last.op \in ServiceOperations
    /\ \E i \in DOMAIN hist.logs : hist.logs[i][1] = "Failed to create audit log: "

\* C20: an operation whose audit write fails still returns when the adapter
\* call succeeded and still raises the adapter's error, with its code and
\* message, when it failed; no entry is written.
C20_AuditFailureSwallowed ==
    [][(ServiceCall /\ AuditWriteFailed') =>
          /\ audit' = audit
          /\ last'.logged # <<>>
          /\ last'.raised = NoneStr
          /\ last'.returned.success =>
                /\ last'.code = NoneStr
                /\ last'.op \in {"create_user", "create_device"} =>
                      last'.data.id = last'.logged[1].resource_id
          /\ ~last'.returned.success =>
                /\ last'.code = last'.returned.code
                /\ last'.message = last'.returned.message]_vars

\* the audit write failed after a successful adapter call, and the operation
\* returned
C20_Witness ==
    /\ AuditWriteFailed
    /\ last.returned.success
    /\ last.code = NoneStr
    /\ last.raised = NoneStr

-----------------------------------------------------------------------------
\* Further properties of the call-level specification (SpecAd)

\* a successful call of the MockAdapter has just returned
MockReturned(op) ==
    adapter.kind = "mock" /\ last.op = op /\ last.returned.success

\* C21: MockAdapter.create_user returns a user whose status is ACTIVE and
\* whose id is the next of the sequence and the id of no other user held;
\* and a get_user of the id of a created user that no update_user or
\* delete_user has touched since returns the record create_user returned.
C21_CreatedReadsBack ==
    /\ MockReturned("create_user") =>
          /\ last.data.status = "active"
          /\ last.data.id = "user-" \o Pad3(adapter.next_user_id - 1)
          /\ Cardinality({i \in 1..Len(adapter.users) :
                             adapter.users[i].id = last.data.id}) = 1
    /\ \A r \in hist.born :
          (adapter.kind = "mock" /\ last.op = "get_user" /\ last.id = r.id) =>
              last.returned.success /\ last.data = r

\* a get_user of the created user returned, after a call on another user
\* had changed the adapter's users
C21_Witness ==
    /\ MockReturned("get_user")
    /\ last.id = "user-009"
    /\ hist.born # {}
    /\ Len(adapter.users) = 8

-----------------------------------------------------------------------------
\* The HTTP handlers (voip/api/views.py). Each handler that reaches a
\* provider is named after the VoIPService method it awaits; tasks holds
\* the request being handled and the handler's position in it, svc and
\* adapter the service the coroutine constructed.

Handlers == {"test_connection"} \cup ServiceOperations

\* the handlers that read page and page_size with int(), and those that
\* require a field of the request body
PagedHandlers == {"list_users", "list_devices", "get_active_calls"}

ParameterHandlers == {"add_to_conference", "unpark_call"}

\* the practice the ProviderConnection row of connection_id belongs to
ConnectionPractice == "practice-A"

\* request.user of an authenticated request (IsAuthenticated lets no other
\* request reach a handler); practice is the practice the user works for,
\* which no attribute of the user model records
User(is_superuser, practice) == [is_superuser |-> is_superuser, practice |-> practice]

Users == {User(TRUE, "none"), User(FALSE, "practice-A"), User(FALSE, "practice-B")}

\* IsPracticeMember._user_has_practice_access: both branches return True
UserHasPracticeAccess(user, practice) == IF user.is_superuser THEN TRUE ELSE TRUE

\* CanAccessConnection.has_object_permission
CanAccessConnection(user, practice) ==
    IF user.is_superuser THEN TRUE ELSE UserHasPracticeAccess(user, practice)

\* verify_connection_access: the error response, or status 0 when access
\* is granted
VerifyConnectionAccess(user, conn) ==
    IF ~conn.exists THEN [status |-> 404, error |-> "NOT_FOUND"]
    ELSE IF ~CanAccessConnection(user, ConnectionPractice)
         THEN [status |-> 403, error |-> "FORBIDDEN"]
         ELSE [status |-> 0, error |-> NoneStr]

\* the request in hand: the handler's position, the rows verify found,
\* the VoIPService instances constructed, the connect() and disconnect()
\* calls awaited on them, the exception on its way out of the coroutine
\* (code of a VoIPServiceError, or the name of another exception), and
\* the response produced
HttpState(pc, handler, user, found, constructed, connects, disconnects,
          code, raised, status, error) ==
    [pc |-> pc, handler |-> handler, user |-> user, found |-> found,
     constructed |-> constructed, connects |-> connects,
     disconnects |-> disconnects, code |-> code, raised |-> raised,
     status |-> status, error |-> error]

NoRequest ==
    HttpState("idle", "none", User(FALSE, "none"), FALSE, 0, 0, 0,
              NoneStr, NoneStr, 0, NoneStr)

\* the handler up to "service = VoIPService(connection_id, request.user)":
\* access is verified, then the parameters are read
Received(handler, user, conn, params_ok) ==
    IF VerifyConnectionAccess(user, conn).status # 0
    THEN HttpState("responded", handler, user, conn.exists, 0, 0, 0, NoneStr, NoneStr,
                   VerifyConnectionAccess(user, conn).status,
                   VerifyConnectionAccess(user, conn).error)
    ELSE IF handler \in PagedHandlers /\ ~params_ok
    THEN HttpState("responded", handler, user, TRUE, 0, 0, 0, NoneStr, "ValueError",
                   500, NoneStr)
    ELSE IF handler \in ParameterHandlers /\ ~params_ok
    THEN HttpState("responded", handler, user, TRUE, 0, 0, 0, NoneStr, NoneStr,
                   400, "MISSING_PARAMETER")
    ELSE HttpState("constructed", handler, user, TRUE, 1, 0, 0, NoneStr, NoneStr,
                   0, NoneStr)

\* A coroutine without try/finally: an exception of connect() leaves it at once
AfterConnectWithoutFinally(r, o) ==
    IF o.code # NoneStr \/ o.raised # NoneStr
    THEN [r EXCEPT !.pc = "respond", !.connects = @ + 1,
                   !.code = o.code, !.raised = o.raised]
    ELSE [r EXCEPT !.pc = IF r.handler = "test_connection" THEN "finally"
                          ELSE "connected",
                   !.connects = @ + 1]

\* the coroutine after "await service.connect()": an exception takes it to
\* the finally clause, and so does the return of test_connection
AfterConnect(r, o) ==
    IF o.code # NoneStr \/ o.raised # NoneStr
    THEN [r EXCEPT !.pc = "finally", !.connects = @ + 1,
                   !.code = o.code, !.raised = o.raised]
    ELSE [r EXCEPT !.pc = IF r.handler = "test_connection" THEN "finally"
                          ELSE "connected",
                   !.connects = @ + 1]

\* the coroutine after the awaited service method returned or raised
AfterOperation(r, o) ==
    [r EXCEPT !.pc = "finally", !.code = o.code, !.raised = o.raised]

\* the finally clause: an exception of disconnect() replaces the one on its
\* way out
AfterDisconnect(r, o) ==
    IF o.raised # NoneStr
    THEN [r EXCEPT !.pc = "respond", !.disconnects = @ + 1,
                   !.code = NoneStr, !.raised = o.raised]
    ELSE [r EXCEPT !.pc = "respond", !.disconnects = @ + 1]

\* the code of the 500 response of each handler
FailedCode(handler) ==
    CASE handler = "test_connection" -> "TEST_FAILED"
      [] handler \in {"list_users", "list_devices", "get_active_calls"} -> "LIST_FAILED"
      [] handler \in {"get_user", "get_device", "get_call"} -> "GET_FAILED"
      [] handler \in {"create_user", "create_device"} -> "CREATE_FAILED"
      [] handler = "update_user" -> "UPDATE_FAILED"
      [] handler \in {"delete_user", "delete_device"} -> "DELETE_FAILED"
      [] handler = "transfer_call" -> "TRANSFER_FAILED"
      [] handler = "hold_call" -> "HOLD_FAILED"
      [] handler = "resume_call" -> "RESUME_FAILED"
      [] handler = "mute_call" -> "MUTE_FAILED"
      [] handler = "unmute_call" -> "UNMUTE_FAILED"
      [] handler = "hangup_call" -> "HANGUP_FAILED"
      [] handler = "create_conference" -> "CONFERENCE_FAILED"
      [] handler = "add_to_conference" -> "ADD_CONFERENCE_FAILED"
      [] handler = "remove_from_conference" -> "REMOVE_CONFERENCE_FAILED"
      [] handler = "start_recording" -> "RECORDING_START_FAILED"
      [] handler = "stop_recording" -> "RECORDING_STOP_FAILED"
      [] handler = "park_call" -> "PARK_FAILED"
      [] OTHER -> "UNPARK_FAILED"

\* the handler after run_async: the JsonResponse of the result, or the
\* error response of the exception caught
Response(r) ==
    IF r.raised # NoneStr
    THEN [r EXCEPT !.pc = "responded", !.status = 500, !.error = FailedCode(r.handler)]
    ELSE IF r.code # NoneStr
    THEN [r EXCEPT !.pc = "responded", !.status = 400, !.error = r.code]
    ELSE [r EXCEPT !.pc = "responded",
                   !.status = IF r.handler \in {"create_user", "create_device",
                                                "create_conference"}
                              THEN 201 ELSE 200]

InitHttp ==
    /\ now = 0
    /\ db_conn \in {Connection(TRUE, "pending", NoMsg, pt) : pt \in ProviderTypes}
    /\ db_cred = Credential(TRUE, TRUE, StoredCredentials)
    /\ svc = NewService
    /\ adapter = NoAdapter
    /\ clients = <<>>
    /\ audit = 0
    /\ last = NoOutcome
    /\ hist = NoHistory
    /\ tasks = NoRequest
    /\ ids = NoIds

\* a request reaches a handler, which runs up to the construction of the
\* service or to an early response
HttpReceive ==
    /\ tasks.pc \in {"idle", "responded"}
    /\ audit < MaxAudit
    /\ \E handler \in Handlers, user \in Users :
       \E params_ok \in (IF handler \in PagedHandlers \cup ParameterHandlers
                         THEN BOOLEAN ELSE {TRUE}) :
          tasks' = Received(handler, user, db_conn, params_ok)
    /\ UNCHANGED <<ids, now, db_conn, db_cred, svc, adapter, clients, audit, last, hist>>

\* the coroutine awaits service.connect()
HttpConnect ==
    /\ tasks.pc = "constructed"
    /\ \E tokResp \in SvcTokenResponses :
       \E c \in {ServiceConnect(svc, adapter, db_conn, db_cred, tokResp, now, clients)} :
          /\ svc' = c.svc
          /\ adapter' = c.adapter
          /\ db_conn' = c.db_conn
          /\ clients' = c.clients
          /\ tasks' = AfterConnect(tasks, c.outcome)
    /\ UNCHANGED <<ids, now, db_cred, audit, last, hist>>

\* the coroutine awaits the service method of the handler
HttpOperation ==
    /\ tasks.pc = "connected"
    /\ \E args \in OpArgs(tasks.handler) :
       \E tokResp \in TokenAnswers(svc, adapter, now), apiResp \in ApiAnswers(svc, adapter) :
       \E o \in {ServiceOperation(svc, adapter, tasks.handler, args, now, tokResp, apiResp)} :
       \E audit_ok \in (IF o.outcome.logged = <<>> THEN {TRUE} ELSE BOOLEAN) :
          /\ adapter' = o.adapter
          /\ audit' = IF audit_ok THEN audit + Len(o.outcome.logged) ELSE audit
          /\ tasks' = AfterOperation(tasks, AfterLogAction(o.outcome, audit_ok))
    /\ UNCHANGED <<ids, now, db_conn, db_cred, svc, clients, last, hist>>

\* the finally clause awaits service.disconnect()
HttpDisconnect ==
    /\ tasks.pc = "finally"
    /\ \E d \in {ServiceDisconnect(svc, adapter, clients)} :
          /\ svc' = d.svc
          /\ adapter' = d.adapter
          /\ clients' = d.clients
          /\ tasks' = AfterDisconnect(tasks, d.outcome)
    /\ UNCHANGED <<ids, now, db_conn, db_cred, audit, last, hist>>

\* run_async returns or raises, and the handler produces the response; the
\* service and the adapter of the coroutine are dropped with it
HttpRespond ==
    /\ tasks.pc = "respond"
    /\ tasks' = Response(tasks)
    /\ svc' = NewService
    /\ adapter' = NoAdapter
    /\ clients' = <<>>
    /\ UNCHANGED <<ids, now, db_conn, db_cred, audit, last, hist>>

HttpTick ==
    /\ now < MaxTime
    /\ now' = now + 1
    /\ UNCHANGED <<ids, db_conn, db_cred, svc, adapter, clients, audit, last, hist, tasks>>

\* the provisioning flow changes the rows while a request is handled: the
\* connection is deactivated, or deleted with its credential, or the
\* credential is removed or replaced by data that does not decrypt
HttpProvision ==
    /\ db_conn.exists
    /\ \E rows \in {<<[db_conn EXCEPT !.status = "inactive"], db_cred>>,
                     <<[db_conn EXCEPT !.exists = FALSE],
                       [db_cred EXCEPT !.exists = FALSE]>>,
                     <<db_conn, Credential(FALSE, FALSE, db_cred.data)>>,
                     <<db_conn, Credential(TRUE, FALSE, db_cred.data)>>} :
          /\ db_conn' = rows[1]
          /\ db_cred' = rows[2]
          /\ rows # <<db_conn, db_cred>>
    /\ UNCHANGED <<ids, now, svc, adapter, clients, audit, last, hist, tasks>>

NextHttp ==
    \/ HttpReceive
    \/ HttpConnect
    \/ HttpOperation
    \/ HttpDisconnect
    \/ HttpRespond
    \/ HttpTick
    \/ HttpProvision

SpecHttp == InitHttp /\ [][NextHttp]_vars

-----------------------------------------------------------------------------
\* Properties of the handler-level specification (SpecHttp)

\* C22: a request of a user who is not a superuser, for a connection that
\* exists and belongs to another practice than the user's, is answered
\* 403 FORBIDDEN without a VoIPService being constructed or connected.
C22_OtherPracticeDenied ==
    (/\ tasks.pc # "idle"
     /\ ~tasks.user.is_superuser
     /\ tasks.user.practice # ConnectionPractice
     /\ tasks.found)
    => /\ tasks.pc = "responded"
       /\ tasks.status = 403
       /\ tasks.error = "FORBIDDEN"
       /\ tasks.constructed = 0
       /\ tasks.connects = 0

\* C27: a handler that constructed a VoIPService has awaited disconnect()
\* on it exactly once when the response is produced, whichever way the
\* coroutine ended, and never more than once before; a handler that
\* constructed none awaits no disconnect().
C27_DisconnectsOnce ==
    /\ tasks.disconnects <= tasks.constructed
    /\ tasks.constructed <= 1
    /\ tasks.pc \in {"respond", "responded"} => tasks.disconnects = tasks.constructed
    /\ tasks.pc \in {"constructed", "connected", "finally"} => tasks.disconnects = 0

\* a response was produced after connect() failed
C27_Witness ==
    /\ tasks.pc = "responded"
    /\ tasks.connects = 1
    /\ tasks.disconnects = 1
    /\ tasks.status = 400
    /\ tasks.error = "CONNECTION_INACTIVE"

-----------------------------------------------------------------------------
\* More properties of the service-level specification (Spec)

\* C23: in every state _connected is true only if the adapter the service
\* holds is one whose connect() succeeded and on which no disconnect() has
\* been awaited since, also after a later connect() on the instance failed.
C23_ConnectedMeansHeld ==
    svc._connected => hist.held

\* the re-authentication of the expiry check of the call just made failed
RefreshFailed == hist.refresh # NoResult /\ ~hist.refresh.success

\* C24: when the re-authentication an expired token triggers fails, the
\* adapter operation returns that failed result, coded AUTH_ERROR or
\* AUTH_TIMEOUT, no API request is sent, and the service raises the error
\* with that code and message.
C24_FailedRefreshReported ==
    (last.op \in ServiceOperations /\ RefreshFailed) =>
        /\ last.returned = hist.refresh
        /\ last.returned.code \in {"AUTH_ERROR", "AUTH_TIMEOUT"}
        /\ \A i \in 1..Len(last.reqs) : last.reqs[i].kind # "api"
        /\ last.code = hist.refresh.code
        /\ last.message = hist.refresh.message
        /\ last.raised = NoneStr

\* an operation found the token expired and its token request timed out
C24_Witness ==
    /\ last.op = "get_user"
    /\ RefreshFailed
    /\ last.code = "AUTH_TIMEOUT"
    /\ last.reqs = <<TokenRequest>>

\* connect() has just failed before the adapter's connect() was invoked:
\* on one of the checks, or in the registry
FailedBeforeAdapter ==
    /\ last.op = "connect"
    /\ last.calls = <<>>
    /\ last.code \in PrecheckCodes \/ last.raised = "ValueError"

-----------------------------------------------------------------------------
\* More properties of the call-level specification (SpecAd)

\* C25: after the re-authentication an expired token triggers has
\* succeeded, the cached expiry is later than the instant of the check, so
\* that a call made at once finds the token valid; for every successful
\* token answer, with or without expires_in.
C25_RefreshedTokenFresh ==
    (hist.refresh # NoResult /\ hist.refresh.success) =>
        ~TokenExpired(adapter, now)

\* the _authenticate run by the call just made returned success: the one
\* of connect(), or the one of the expiry check of an operation
AuthenticatedNow ==
    \/ adapter.kind = "netsapiens" /\ last.op = "connect" /\ last.returned.success
    \/ hist.refresh # NoResult /\ hist.refresh.success

\* C26: whenever _authenticate returns success the cached access token is
\* a non-empty value, so that every API request sent afterwards carries it
\* in its Authorization header.
C26_TokenCachedOnSuccess ==
    /\ AuthenticatedNow => Truthy(adapter.access_token)
    /\ \A i \in 1..Len(last.reqs) :
          last.reqs[i].kind = "api" => last.reqs[i].bearer # NoneStr

\* the record a payload of update_user describes: the previous one with
\* each field the payload supplies replaced by the supplied value
Overridden(u, user_data) ==
    [u EXCEPT
       !.email = IF user_data.email # NoneChars THEN user_data.email ELSE @,
       !.first_name = IF user_data.first_name # NoneChars
                      THEN user_data.first_name ELSE @,
       !.last_name = IF user_data.last_name # NoneChars THEN user_data.last_name ELSE @,
       !.extension = IF user_data.extension # NoneChars THEN user_data.extension ELSE @,
       !.status = IF user_data.status # NoneStr THEN user_data.status ELSE @,
       !.department = IF user_data.department # NoneStr
                      THEN user_data.department ELSE @]

\* C28: after MockAdapter.update_user(id, payload) has succeeded,
\* get_user(id) returns the previous record overridden by the fields of
\* the payload that are not None, and get_user of every other user returns
\* what it returned before.
C28_UpdateOverrides ==
    [][(adapter.kind = "mock" /\ last.op = "none" /\ last'.op = "update_user"
        /\ last'.returned.success) =>
          \A args \in OpArgs("update_user") :
              args.id = last'.id =>
                  /\ MockGetUser(adapter', args.id).data =
                        Overridden(MockGetUser(adapter, args.id).data, args.user_data)
                  /\ \A i \in 1..Len(adapter.users) :
                        adapter.users[i].id # args.id =>
                            MockGetUser(adapter', adapter.users[i].id) =
                                MockGetUser(adapter, adapter.users[i].id)]_vars

-----------------------------------------------------------------------------
\* IDMappingService (voip_admin/id_mapping.py), called by several workers
\* on the rows of one connection. Each database statement is one step;
\* tasks holds the call each worker is in.

Workers == {"w1", "w2"}

ResourceTypes == {"user", "device"}

ProviderIds == {"p1", "p2"}

\* str(uuid.uuid4()): the n-th value drawn, unequal to every other
Uuid(n) == "pl-" \o Pad3(n)

\* a row of IDMapping (its connection is the one of the model)
IDMapping(resource_type, peerlogic_id, provider_id) ==
    [resource_type |-> resource_type, peerlogic_id |-> peerlogic_id,
     provider_id |-> provider_id]

\* IDMapping.Meta.unique_together: connection, resource_type, peerlogic_id
UniqueTogether(rows, row) ==
    \A r \in rows :
        ~(r.resource_type = row.resource_type /\ r.peerlogic_id = row.peerlogic_id)

\* IDMapping.objects.filter(connection, resource_type, provider_id)
ByProviderId(rows, resource_type, provider_id) ==
    {r \in rows : r.resource_type = resource_type /\ r.provider_id = provider_id}

\* IDMapping.objects.filter(connection, resource_type, peerlogic_id)
ByPeerlogicId(rows, resource_type, peerlogic_id) ==
    {r \in rows : r.resource_type = resource_type /\ r.peerlogic_id = peerlogic_id}

\* the call a worker is in: the method, its arguments (peerlogic_id is the
\* default of get_or_create), its position, and what it returned or raised
IdCall(pc, method, resource_type, provider_id, peerlogic_id, result, raised) ==
    [pc |-> pc, method |-> method, resource_type |-> resource_type,
     provider_id |-> provider_id, peerlogic_id |-> peerlogic_id,
     result |-> result, raised |-> raised]

NoCall == IdCall("idle", "none", "none", NoneStr, NoneStr, NoneStr, NoneStr)

\* QuerySet.get on the rows a filter selected: the row's field, or the
\* exception raised
Got(call, found, field) ==
    IF Cardinality(found) = 1
    THEN [call EXCEPT !.pc = "done", !.result = (CHOOSE r \in found : TRUE)[field]]
    ELSE IF found = {}
    THEN [call EXCEPT !.pc = "done", !.result = NoneStr]
    ELSE [call EXCEPT !.pc = "done", !.raised = "MultipleObjectsReturned"]

\* get_or_create after its first query: the row found, the exception of
\* get(), or on to the INSERT
AfterGet(call, found) ==
    IF found = {} THEN [call EXCEPT !.pc = "create"]
    ELSE Got(call, found, "peerlogic_id")

\* get_or_create after the INSERT failed on the unique constraint: the
\* query is run again, and the IntegrityError raised if it finds no row
AfterIntegrityError(call, found) ==
    IF found = {} THEN [call EXCEPT !.pc = "done", !.raised = "IntegrityError"]
    ELSE Got(call, found, "peerlogic_id")

InitId ==
    /\ now = 0
    /\ db_conn = Connection(TRUE, "active", NoMsg, "NetSapiens")
    /\ db_cred = Credential(TRUE, TRUE, StoredCredentials)
    /\ svc = NewService
    /\ adapter = NoAdapter
    /\ clients = <<>>
    /\ audit = 0
    /\ last = NoOutcome
    /\ hist = NoHistory
    /\ tasks = [w \in Workers |-> NoCall]
    /\ ids = NoIds

\* a worker calls get_or_create_peerlogic_id: the default is drawn when the
\* arguments are built
IdGetOrCreate ==
    /\ ids.drawn < MaxIds
    /\ \E w \in Workers, rt \in ResourceTypes, pid \in ProviderIds :
          /\ tasks[w].pc = "idle"
          /\ tasks' = [tasks EXCEPT ![w] = IdCall("get", "get_or_create_peerlogic_id",
                                                  rt, pid, Uuid(ids.drawn + 1),
                                                  NoneStr, NoneStr)]
    /\ ids' = [ids EXCEPT !.drawn = @ + 1]
    /\ UNCHANGED <<now, db_conn, db_cred, svc, adapter, clients, audit, last, hist>>

\* the SELECT of get_or_create
IdSelect ==
    /\ \E w \in Workers :
          /\ tasks[w].pc = "get"
          /\ tasks' = [tasks EXCEPT ![w] =
                          AfterGet(@, ByProviderId(ids.rows, @.resource_type,
                                                   @.provider_id))]
    /\ UNCHANGED <<now, db_conn, db_cred, svc, adapter, clients, audit, last, hist, ids>>

\* the INSERT of get_or_create
IdInsert ==
    /\ \E w \in Workers :
       \E row \in {IDMapping(tasks[w].resource_type, tasks[w].peerlogic_id,
                             tasks[w].provider_id)} :
          /\ tasks[w].pc = "create"
          /\ IF UniqueTogether(ids.rows, row)
             THEN /\ ids' = [ids EXCEPT !.rows = @ \cup {row}]
                  /\ tasks' = [tasks EXCEPT ![w].pc = "done",
                                            ![w].result = row.peerlogic_id]
             ELSE /\ ids' = ids
                  /\ tasks' = [tasks EXCEPT ![w] =
                                  AfterIntegrityError(@, ByProviderId(ids.rows,
                                                                      @.resource_type,
                                                                      @.provider_id))]
    /\ UNCHANGED <<now, db_conn, db_cred, svc, adapter, clients, audit, last, hist>>

\* a worker calls get_provider_id with an id the service has returned
IdGetProviderId ==
    /\ \E w \in Workers, rt \in ResourceTypes, n \in 1..ids.drawn :
          /\ tasks[w].pc = "idle"
          /\ tasks' = [tasks EXCEPT ![w] =
                          Got(IdCall("get", "get_provider_id", rt, NoneStr, Uuid(n),
                                     NoneStr, NoneStr),
                              ByPeerlogicId(ids.rows, rt, Uuid(n)), "provider_id")]
    /\ UNCHANGED <<now, db_conn, db_cred, svc, adapter, clients, audit, last, hist, ids>>

\* a worker calls get_peerlogic_id
IdGetPeerlogicId ==
    /\ \E w \in Workers, rt \in ResourceTypes, pid \in ProviderIds :
          /\ tasks[w].pc = "idle"
          /\ tasks' = [tasks EXCEPT ![w] =
                          Got(IdCall("get", "get_peerlogic_id", rt, pid, NoneStr,
                                     NoneStr, NoneStr),
                              ByProviderId(ids.rows, rt, pid), "peerlogic_id")]
    /\ UNCHANGED <<now, db_conn, db_cred, svc, adapter, clients, audit, last, hist, ids>>

\* a worker calls delete_mapping: True when the row was found and deleted
IdDeleteMapping ==
    /\ \E w \in Workers, rt \in ResourceTypes, n \in 1..ids.drawn :
          /\ tasks[w].pc = "idle"
          /\ tasks' = [tasks EXCEPT ![w] =
                          IdCall("done", "delete_mapping", rt, NoneStr, Uuid(n),
                                 IF ByPeerlogicId(ids.rows, rt, Uuid(n)) # {}
                                 THEN "True" ELSE "False", NoneStr)]
          /\ ids' = [ids EXCEPT !.rows = @ \ ByPeerlogicId(ids.rows, rt, Uuid(n))]
    /\ UNCHANGED <<now, db_conn, db_cred, svc, adapter, clients, audit, last, hist>>

\* the worker takes what the call returned
IdReturn ==
    /\ \E w \in Workers :
          /\ tasks[w].pc = "done"
          /\ tasks' = [tasks EXCEPT ![w] = NoCall]
    /\ UNCHANGED <<now, db_conn, db_cred, svc, adapter, clients, audit, last, hist, ids>>

NextId ==
    \/ IdGetOrCreate
    \/ IdSelect
    \/ IdInsert
    \/ IdGetProviderId
    \/ IdGetPeerlogicId
    \/ IdDeleteMapping
    \/ IdReturn

SpecId == InitId /\ [][NextId]_vars

-----------------------------------------------------------------------------
\* Properties of the ID mapping specification (SpecId)

\* the get_or_create_peerlogic_id call of worker w has returned an id
Mapped(w) ==
    /\ tasks[w].method = "get_or_create_peerlogic_id"
    /\ tasks[w].pc = "done"
    /\ tasks[w].raised = NoneStr

\* C30: under concurrent get_or_create_peerlogic_id calls for the same
\* resource type and provider id, at most one row exists for them, the
\* calls return the same peerlogic id, and the row of a returned id holds
\* the provider id of the call.
C30_OneMappingPerResource ==
    /\ \A r1 \in ids.rows : \A r2 \in ids.rows :
          (r1.resource_type = r2.resource_type /\ r1.provider_id = r2.provider_id)
              => r1 = r2
    /\ \A w1 \in Workers : \A w2 \in Workers :
          (/\ Mapped(w1) /\ Mapped(w2)
           /\ tasks[w1].resource_type = tasks[w2].resource_type
           /\ tasks[w1].provider_id = tasks[w2].provider_id)
              => tasks[w1].result = tasks[w2].result
    /\ \A w \in Workers :
          Mapped(w) =>
              \A r \in ByPeerlogicId(ids.rows, tasks[w].resource_type, tasks[w].result) :
                  r.provider_id = tasks[w].provider_id

====
